---- MODULE Spec2Model ----
(***************************************************************************)
(* Turbinia evidence pre/post-processing and the resource manager.         *)
(*                                                                         *)
(* Every task owns a by-value copy of an evidence chain (the evidence it   *)
(* works on and its parent_evidence ancestors).  A worker runs             *)
(* Evidence.preprocess on the chain, executes the task, and then runs      *)
(* Evidence.postprocess.  Resource-tracked evidence registers the task in  *)
(* the persisted resource-claim table under the cross-process file lock    *)
(* config.RESOURCE_FILE_LOCK.                                              *)
(***************************************************************************)
EXTENDS Integers, Sequences, FiniteSets

\* ------------------------------------------------------------------ bounds
NumTasks == 2

\* How many faults (an exception out of an external call, a crashed or hung
\* worker) one behaviour of FaultSpec may contain.
MaxFaults == 1

Tasks == 1..NumTasks

NoTask == 0

\* ------------------------------------------------- evidence variants
GCD == "GoogleCloudDisk"

EMB == "GoogleCloudDiskRawEmbedded"

DP == "DiskPartition"

RAW == "RawDisk"

EWF == "EwfDisk"

DOCKER == "DockerContainer"

CDIR == "CompressedDirectory"

ATTACHED == "ATTACHED"

MOUNTED == "MOUNTED"

DECOMPRESSED == "DECOMPRESSED"

CONTAINER_MOUNTED == "CONTAINER_MOUNTED"

\* EvidenceState: every evidence maps each of these to a boolean.
EvidenceState == {MOUNTED, ATTACHED, DECOMPRESSED, CONTAINER_MOUNTED}

\* POSSIBLE_STATES of each variant.
PossibleStates(v) ==
  CASE v = RAW -> {ATTACHED}
    [] v = EWF -> {ATTACHED}
    [] v = DP -> {ATTACHED, MOUNTED}
    [] v = GCD -> {ATTACHED, MOUNTED}
    [] v = EMB -> {ATTACHED}
    [] v = DOCKER -> {CONTAINER_MOUNTED}
    [] v = CDIR -> {DECOMPRESSED}
    [] OTHER -> {}

\* Evidence chains, the evidence itself first, its most distant ancestor last.
Chains ==
  { <<GCD>>,
    <<EMB, GCD>>,
    <<DP, EMB, GCD>>,
    <<RAW, GCD>>,
    <<DP>> }

\* The chains of the behaviours with faults.
FaultChains == { <<GCD>>, <<EMB, GCD>>, <<RAW, GCD>> }

\* TurbiniaTask.REQUIRED_STATES handed to preprocess.
ReqSets == { {}, {ATTACHED} }

\* REQUIRED_STATES of the tasks in the behaviours with faults.
FaultReqSets == { {ATTACHED} }

\* The chains of the behaviours of one worker alone: every variant, with
\* and without the parent it depends on.
SoloChains ==
  { <<RAW>>, <<EWF>>, <<CDIR>>, <<GCD>>, <<DP>>, <<DOCKER>>,
    <<DP, RAW>>, <<DP, EWF>>, <<DP, GCD>>, <<EMB, GCD>>,
    <<DOCKER, DP, RAW>>, <<DOCKER, DP, GCD>>, <<DP, EMB, GCD>> }

\* REQUIRED_STATES of the task of one worker alone.
SoloReqSets == SUBSET EvidenceState

\* disk_name values (resource ids).
Disks == {"disk-a"}

\* How a call into an external processor can fail: with a TurbiniaException
\* or with another exception.
Failures == {"texc", "exc"}

VARIABLES
  chain,       \* chain[t]: the evidence chain of task t
  req,         \* req[t]: required_states of task t
  disk,        \* disk[t]: disk_name of the cloud disk evidence of task t
  restored,    \* restored[t]: the chain was rebuilt by Evidence.from_dict from
               \* the attributes an earlier run left (else just constructed)
  pc,          \* pc[t]: position of the worker running task t
  k,           \* k[t]: position in the current traversal order
  st,          \* st[t][i]: state flags that are True on evidence i of task t
  lock,        \* holder of config.RESOURCE_FILE_LOCK, NoTask when free
  claims,      \* persisted resource state: resource id -> set of task ids
  tmp,         \* tmp[t]: the table as read by task t inside a read-modify-write
  attached,    \* attached[d]: the cloud disk d is physically attached
  attr,        \* attr[t][i]: local_path of evidence i of task t, and the
               \* attributes its _preprocess hook assigned (history)
  trace,       \* trace[t]: hooks invoked for task t, in order (history)
  fault,       \* fault[t]: where the last exception of task t was raised (history)
  nfaults,     \* number of faults so far (history)
  held,        \* held[d]: tasks that registered on d and did not release yet (history)
  everClaimed, \* everClaimed[d]: tasks that ever registered on d (history)
  lateClaim,   \* lateClaim[d]: a registration on d followed a release on d (history)
  relLog,      \* relLog[d]: <<task, detachable>> of the claim-removing releases (history)
  call,        \* the last call of the serialization interface: its
               \* arguments and its outcome
  recv,        \* the TurbiniaRequest object a receiver loads messages into
  poll,        \* the call of wait_for_request: its position, the counts of
               \* the last two polls and the level of the last progress message,
               \* and the task results of the request as they are stored
  report,      \* the last call of a reporting function of the client: its
               \* arguments and what it computed
  manager,     \* ManagerInterface: _registered_classes and the last call of
               \* a class method, with its outcome
  jobs,        \* the jobs that are registered and the last call on them: the
               \* type of the evidence added and the jobs selected for it
  probe        \* check-lockfile: the holder of config.LOCK_FILE, the position
               \* of main and the time it has waited

vars == <<chain, req, disk, restored, pc, k, st, lock, claims, tmp, attached,
          attr, trace, fault, nfaults, held, everClaimed, lateClaim, relLog,
          call, recv, poll, report, manager, jobs, probe>>

\* ------------------------------------------------- class attributes
\* context_dependent, set in the constructors.
ContextDependent(v) == v \in {DP, EMB, DOCKER}

\* resource_tracked, set in GoogleCloudDisk.__init__ (inherited by the
\* embedded variant).
ResourceTracked(v) == v \in {GCD, EMB}

\* has_child_evidence of evidence i: set_parent marks the parent.
HasChild(i) == i > 1

\* ------------------------------------------------- traversal orders
RECURSIVE PreOrderFrom(_, _)
\* Evidence.preprocess(self = c[i]): the indices whose try-block runs, in order.
PreOrderFrom(c, i) ==
  IF ContextDependent(c[i]) /\ i < Len(c)
    THEN Append(PreOrderFrom(c, i + 1), i)
    ELSE <<i>>

RECURSIVE PreRaisesFrom(_, _)
\* preprocess raises before any hook: context_dependent without a parent.
PreRaisesFrom(c, i) ==
  IF ContextDependent(c[i])
    THEN IF i = Len(c) THEN TRUE ELSE PreRaisesFrom(c, i + 1)
    ELSE FALSE

PreOrder(c) == IF PreRaisesFrom(c, 1) THEN <<>> ELSE PreOrderFrom(c, 1)

\* Faulty variant: postprocess recurses into the parent before its own hook.
PostOrderParentFirst(c) == [i \in 1..Len(c) |-> Len(c) + 1 - i]

\* Evidence.postprocess(self = c[1]): own decision first, then the parent.
PostOrder(c) == [i \in 1..Len(c) |-> i]

\* The resource id a tracked evidence of task t registers: disk_name.
ResourceId(t) == disk[t]

\* ------------------------------------------------- resource manager
\* resource_manager.PreprocessResourceState on the table tab.
PreprocessResourceState(tab, rid, tid) ==
  [tab EXCEPT ![rid] = @ \cup {tid}]

\* resource_manager.PostProcessResourceState on the table tab: the new table.
PostProcessResourceState(tab, rid, tid) ==
  [tab EXCEPT ![rid] = @ \ {tid}]

\* The value PostProcessResourceState returns: the claim set is now empty.
IsDetachable(tab, rid, tid) ==
  PostProcessResourceState(tab, rid, tid)[rid] = {}

\* Faulty variant: preprocess does not register the task.
RegisterSkipped(tab, t) == tab

\* The call preprocess makes for a tracked evidence of task t.
RegisterClaim(tab, t) == PreprocessResourceState(tab, ResourceId(t), t)

\* ------------------------------------------------- the file lock
\* Faulty variant: the with-block does not exclude other workers.
LockIgnored == TRUE

\* filelock.FileLock(...).acquire() with the default timeout of -1: the
\* caller proceeds only once nobody holds the lock; there is no timeout.
LockFree == lock = NoTask

\* Faulty variant: the lock is still held after the with-block.
LockKeptOnExit(t) == t

\* Leaving a with-block normally releases the lock.
LockOnExit(t) == NoTask

\* Faulty variant: an exception leaves the lock held.
LockKeptOnRaise(t) == t

\* Leaving a with-block by an exception releases the lock as well.
LockOnRaise(t) == NoTask

\* Faulty variant: the hook runs whatever the release returned.
RunsTeardownAlways(detachable) == TRUE

\* postprocess runs the hook of a tracked evidence when the release said
\* detachable, and skips it otherwise.
RunsTeardown(detachable) == detachable

\* Faulty variant: is_detachable stays True after the hook ran inside the
\* with-block.
DetachableAfterHookKept == TRUE

\* is_detachable after the hook ran inside the with-block: "Set to False to
\* prevent postprocess from running twice".
DetachableAfterHook == FALSE

\* Faulty variant: the with-block ends before the hook runs.
LockDroppedBeforeTeardown(t, teardown) == NoTask

\* After PostProcessResourceState: the hook, when it runs, runs inside the
\* with-block.
LockAfterRelease(t, teardown) == IF teardown THEN t ELSE NoTask

\* ------------------------------------------------- hooks
\* The flags of evidence i replaced by f(old flags).
SetFlags(s, i, fl) == [s EXCEPT ![i] = fl]

\* Faulty variant: every hook marks its own evidence MOUNTED.
PreHookFlagsMountSelf(c, s, i, r) == SetFlags(s, i, s[i] \cup {MOUNTED})

\* _preprocess of every variant but GoogleCloudDisk on the flag sequence s
\* of chain c, for evidence i, when no processor fails.
PreHookFlags(c, s, i, r) ==
  LET attach == ATTACHED \in r \/ HasChild(i)
      mount == MOUNTED \in r \/ HasChild(i)
  IN CASE c[i] \in {RAW, EWF} ->
            IF attach THEN SetFlags(s, i, s[i] \cup {ATTACHED}) ELSE s
       [] c[i] = DP ->
            SetFlags(s, i, s[i] \cup (IF attach THEN {ATTACHED} ELSE {})
                                \cup (IF mount THEN {MOUNTED} ELSE {}))
       [] c[i] = EMB ->
            \* the parent disk is mounted first, then the image is attached
            LET s1 == SetFlags(s, i + 1, s[i + 1] \cup {MOUNTED})
            IN IF attach THEN SetFlags(s1, i, s1[i] \cup {ATTACHED}) ELSE s1
       [] c[i] = DOCKER ->
            IF CONTAINER_MOUNTED \in r
              THEN SetFlags(s, i, s[i] \cup {CONTAINER_MOUNTED}) ELSE s
       [] c[i] = CDIR ->
            IF DECOMPRESSED \in r
              THEN SetFlags(s, i, s[i] \cup {DECOMPRESSED}) ELSE s
       [] OTHER -> s

\* The flags a failing _preprocess leaves: the embedded variant raises its
\* TurbiniaException (image not found) after it mounted the parent disk.
PreHookFailFlags(c, s, i, f) ==
  IF c[i] = EMB /\ f = "texc"
    THEN SetFlags(s, i + 1, s[i + 1] \cup {MOUNTED})
    ELSE s

\* Faulty variant: the partition hook detaches without unmounting.
PostHookFlagsStaysMounted(c, s, i) ==
  IF c[i] = DP THEN SetFlags(s, i, s[i] \ {ATTACHED})
  ELSE SetFlags(s, i, s[i] \ {ATTACHED, CONTAINER_MOUNTED})

\* _postprocess of every variant on the flag sequence.
PostHookFlags(c, s, i) ==
  CASE c[i] = EMB ->
         LET s1 == SetFlags(s, i, s[i] \ {ATTACHED})
         IN IF i < Len(c) THEN SetFlags(s1, i + 1, s1[i + 1] \ {MOUNTED}) ELSE s1
    [] c[i] = DP -> SetFlags(s, i, s[i] \ {MOUNTED, ATTACHED})
    [] c[i] = DOCKER -> SetFlags(s, i, s[i] \ {CONTAINER_MOUNTED})
    [] c[i] = CDIR -> s
    [] OTHER -> SetFlags(s, i, s[i] \ {ATTACHED})

\* Faulty variant: a cloud disk that has a child is never detached.
DetachesChildless(c, s, i) == c[i] = GCD /\ ATTACHED \in s[i] /\ ~HasChild(i)

\* GoogleCloudDisk._postprocess detaches the disk when its own ATTACHED flag
\* is set.
Detaches(c, s, i) == c[i] = GCD /\ ATTACHED \in s[i]

\* The attributes of evidence i after a hook assigned names to it; lp is the
\* new local_path.
Assign(a, i, lp, names) ==
  [a EXCEPT ![i] = [local_path |-> lp, written |-> @.written \cup names]]

\* The attribute assignments of _preprocess of every variant but
\* GoogleCloudDisk, for evidence i of chain c under required_states r, when
\* no processor fails; fresh says the object was just constructed (its size
\* is None).
PreHookAttrs(c, a, i, r, fresh) ==
  LET attach == ATTACHED \in r \/ HasChild(i)
      mount == MOUNTED \in r \/ HasChild(i)
  IN CASE c[i] = RAW ->
            LET a1 == IF fresh THEN Assign(a, i, a[i].local_path, {"size"}) ELSE a
            IN IF attach
                 THEN Assign(a1, i, "device_path", {"device_path", "local_path"})
                 ELSE a1
       [] c[i] = EWF ->
            IF attach
              THEN Assign(a, i, "ewf_path",
                          {"ewf_mount_path", "ewf_path", "device_path", "local_path"})
              ELSE a
       [] c[i] = DP ->
            LET a1 == Assign(a, i, a[i].local_path, {"path_spec"})
                a2 == IF attach
                        THEN Assign(a1, i, "device_path", {"device_path", "local_path"})
                        ELSE a1
            IN IF mount
                 THEN Assign(a2, i, "mount_path", {"mount_path", "local_path"})
                 ELSE a2
       [] c[i] = EMB ->
            LET a1 == Assign(a, i + 1, "mount_path", {"mount_path", "local_path"})
            IN IF attach
                 THEN Assign(a1, i, "device_path", {"device_path", "local_path"})
                 ELSE a1
       [] c[i] = DOCKER ->
            IF CONTAINER_MOUNTED \in r
              THEN Assign(a, i, "mount_path",
                          {"_docker_root_directory", "_container_fs_path",
                           "mount_path", "local_path"})
              ELSE a
       [] c[i] = CDIR ->
            IF DECOMPRESSED \in r
              THEN Assign(a, i, "uncompressed_directory",
                          {"uncompressed_directory", "local_path"})
              ELSE a
       [] OTHER -> a

\* The assignments a failing _preprocess made before it raised: the embedded
\* variant mounted the parent disk, the partition stored its path_spec
\* before it read the device_path it never had.
PreHookFailAttrs(c, a, i, f) ==
  CASE c[i] = EMB /\ f = "texc" ->
         Assign(a, i + 1, "mount_path", {"mount_path", "local_path"})
    [] c[i] = DP /\ f = "attr" ->
         Assign(a, i, a[i].local_path, {"path_spec"})
    [] OTHER -> a

\* The hook itself raises an AttributeError.  The embedded variant reads
\* self.path_spec, which it never has, when the parent disk has no
\* partition_paths (it was not attached); the partition reads
\* self.device_path, which only its attach branch assigns, when it mounts
\* without attaching.  A restored object carries the attributes of the
\* earlier run.
HookRaises(c, s, i, r, fresh) ==
  /\ fresh
  /\ \/ c[i] = EMB /\ ATTACHED \notin s[i + 1]
     \/ c[i] = DP /\ MOUNTED \in r /\ ATTACHED \notin r /\ ~HasChild(i)

RECURSIVE PreCallsFrom(_, _)
\* The evidence on which Evidence.preprocess is called, each of which resets
\* its local_path to source_path first.
PreCallsFrom(c, i) ==
  {i} \cup (IF ContextDependent(c[i]) /\ i < Len(c)
              THEN PreCallsFrom(c, i + 1) ELSE {})

\* self.local_path = self.source_path on every evidence preprocess visits.
ResetLocalPath(c, a) ==
  [i \in 1..Len(c) |->
     IF i \in PreCallsFrom(c, 1)
       THEN [a[i] EXCEPT !.local_path = "source_path"]
       ELSE a[i]]

\* ------------------------------------------------- positions
\* Where the hook of variant v starts: GoogleCloudDisk._preprocess first
\* waits for the lock.
HookEntry(v) == IF v = GCD THEN "gcd_wait" ELSE "pre_hook"

\* Where the try-block of preprocess starts for variant v.
PreEntry(v) == IF ResourceTracked(v) THEN "pre_wait" ELSE HookEntry(v)

\* Where postprocess starts for variant v.
PostEntry(v) == IF ResourceTracked(v) THEN "post_wait" ELSE "post_hook"

\* The evidence index task t is working on.
PreIdx(t) == PreOrder(chain[t])[k[t]]

PostIdx(t) == PostOrder(chain[t])[k[t]]

\* Positions inside a with filelock.FileLock(...) block.
LockedPCs ==
  {"pre_locked", "pre_write", "gcd_locked", "post_locked", "post_write",
   "post_teardown", "hung"}

\* Positions inside a read-modify-write of the persisted table.
TablePCs == {"pre_locked", "pre_write", "post_locked", "post_write"}

\* Positions waiting in FileLock.acquire.
WaitPCs == {"pre_wait", "gcd_wait", "post_wait"}

\* ------------------------------------------------- requests and serialization
\* How many ancestors an evidence that is encoded has at most.
MaxParents == 1

\* How many evidence a collection or a request holds at most.
MaxEvidence == 1

\* The classes of the objects that are encoded.
EvTypes == {"Evidence", RAW, DP, GCD}

\* REQUIRED_ATTRIBUTES of each class.
RequiredAttributes(v) ==
  CASE v = RAW -> {"source_path"}
    [] v = GCD -> {"disk_name", "project", "zone"}
    [] OTHER -> {}

\* An Evidence object: its class name (self.type), the flags that are True
\* in its state map, and whether the attributes its class requires are set.
EvidenceObjs ==
  UNION { [type : {v}, state : SUBSET (PossibleStates(v) \cap {ATTACHED}),
           attrs_set : BOOLEAN] : v \in EvTypes }

\* An evidence with its n - 1 parent_evidence ancestors, the evidence first.
EvChains(n) == [1..n -> EvidenceObjs]

\* How long the chains that are encoded are.
ChainLens == 1..(MaxParents + 1)

\* The key json.dumps writes for a member of the IntEnum EvidenceState.
StateKey(f) ==
  CASE f = MOUNTED -> "1"
    [] f = ATTACHED -> "2"
    [] f = DECOMPRESSED -> "3"
    [] f = CONTAINER_MOUNTED -> "4"

\* Evidence.serialize: the __dict__ of the evidence, parent_evidence
\* replaced by the serialized parent; as read back from JSON, the keys of
\* the state map are strings.
serialize(c) ==
  [i \in 1..Len(c) |->
     [type |-> c[i].type,
      state |-> {StateKey(f) : f \in c[i].state},
      attrs_set |-> c[i].attrs_set]]

\* json.loads(evidence.to_json()): a mapping.
to_json(c) == [shape |-> "mapping", recs |-> serialize(c)]

\* The type names a decoded payload may carry: the classes, a name that is
\* no class, a class of the interface module that is no Evidence, and no
\* type at all.
PayloadTypes == EvTypes \cup {"NoSuchEvidence", "EvidenceCollection", ""}

PayloadRecs == [type : PayloadTypes, state : SUBSET {"2"}, attrs_set : BOOLEAN]

\* What evidence_decode may be handed: something that is not a mapping, or
\* a mapping with its n - 1 nested parent_evidence mappings.
NoMapping == [shape |-> "list", recs |-> <<>>]

Mappings(n) == { [shape |-> "mapping", recs |-> r] : r \in [1..n -> PayloadRecs] }

\* The names getattr(sys.modules[__name__], type_) finds: the classes the
\* module turbinia.evidence.interface defines.  The variants live in their
\* own modules, which the interface module does not import.
ModuleClasses ==
  {"Evidence", "EvidenceCollection", "EvidenceManager", "EvidenceState"}

\* The classes found there that have from_dict.
HasFromDict(name) == name = "Evidence"

\* The outcome of a call: what it returned, or the exception it raised.
Returns(v) == [kind |-> "ok", value |-> v]

Raises(e) == [kind |-> e, value |-> <<>>]

RECURSIVE DecodeRecs(_, _)
\* evidence_decode on the mapping recs[i], then on its parent_evidence.
DecodeRecs(recs, i) ==
  IF recs[i].type = ""
    THEN Raises("TurbiniaException")
  ELSE IF recs[i].type \notin ModuleClasses \/ ~HasFromDict(recs[i].type)
    THEN \* AttributeError, raised again as TurbiniaException
         Raises("TurbiniaException")
  ELSE LET own == [type |-> recs[i].type,
                   state |-> {},
                   attrs_set |-> recs[i].attrs_set]
       IN IF i = Len(recs)
            THEN Returns(<<own>>)
            ELSE LET parent == DecodeRecs(recs, i + 1)
                 IN IF parent.kind = "ok"
                      THEN Returns(<<own>> \o parent.value)
                      ELSE parent

\* EvidenceManager.evidence_decode.
evidence_decode(p) ==
  IF p.shape # "mapping"
    THEN Raises("TurbiniaException")
    ELSE DecodeRecs(p.recs, 1)

\* Evidence.validate: every attribute of REQUIRED_ATTRIBUTES is set.
validate(e) == RequiredAttributes(e.type) = {} \/ e.attrs_set

\* interface.EvidenceCollection(collection=items).
EvidenceCollection(items) == [kind |-> "EvidenceCollection", items |-> items]

\* The lists of evidence a collection is built from: no evidence (n = 0),
\* one evidence with its parents (n = 1, a chain of any length), or n
\* evidence without parents.
EvLists(n, len) ==
  IF n = 1 THEN { <<c>> : c \in EvChains(len) }
           ELSE [1..n -> EvChains(1)]

\* What the constructor may be handed for evidence_collection: None, an
\* EvidenceCollection, or a plain list of evidence.
NoCollection == [kind |-> "None", items |-> <<>>]

CollectionArgs(n, len) ==
  { [kind |-> kd, items |-> it] :
      kd \in {"EvidenceCollection", "list"}, it \in EvLists(n, len) }

\* Python truth of such an argument: an EvidenceCollection object is always
\* true, a list when it is not empty.
Truthy(a) ==
  a.kind = "EvidenceCollection" \/ (a.kind = "list" /\ a.items # <<>>)

RequestIds == {"req-1", "req-2"}

\* A TurbiniaRequest: request_id stands for every attribute the constructor
\* copies from its arguments.
Request(id, coll) ==
  [request_id |-> id, evidence |-> coll, type |-> "TurbiniaRequest"]

\* TurbiniaRequest(): request_id is a new uuid and the collection is empty.
NewRequest == Request("uuid", EvidenceCollection(<<>>))

NoRequest == [request_id |-> "", evidence |-> EvidenceCollection(<<>>), type |-> ""]

\* The outcome of a call that yields a request.
ReturnsRequest(r) == [kind |-> "ok", request |-> r]

RaisesRequest(e) == [kind |-> e, request |-> NoRequest]

\* TurbiniaRequest.__init__(request_id=id, evidence_collection=a).
TurbiniaRequest(id, a) ==
  IF ~Truthy(a)
    THEN ReturnsRequest(Request(id, EvidenceCollection(<<>>)))
  ELSE IF a.kind = "EvidenceCollection"
    THEN IF \E n \in 1..Len(a.items) : ~validate(a.items[n][1])
           THEN RaisesRequest("TurbiniaException")
           ELSE ReturnsRequest(Request(id, EvidenceCollection(a.items)))
  ELSE RaisesRequest("TurbiniaException")

\* A JSON text: whether json.loads accepts it, and what it holds then.
TextOf(r) ==
  [valid |-> TRUE, shape |-> "mapping", type |-> r.type,
   request_id |-> r.request_id,
   evidence |-> [n \in 1..Len(r.evidence.items) |-> serialize(r.evidence.items[n])]]

NoText ==
  [valid |-> FALSE, shape |-> "", type |-> "", request_id |-> "", evidence |-> <<>>]

\* TurbiniaRequest.to_json: the comprehension iterates self.evidence, an
\* EvidenceCollection, which is not iterable; the TypeError is raised
\* outside the try block.
request_to_json(r) ==
  IF r.evidence.kind # "list"
    THEN [kind |-> "TypeError", text |-> NoText]
    ELSE [kind |-> "ok", text |-> TextOf(r)]

\* The texts a receiver may be handed: one that is no JSON, a JSON list,
\* and JSON mappings of any type with n evidence records of any type.
ListText == [NoText EXCEPT !.valid = TRUE, !.shape = "list"]

MapTexts(n) ==
  { [valid |-> TRUE, shape |-> "mapping", type |-> ty,
     request_id |-> id, evidence |-> ev] :
      ty \in {"TurbiniaRequest", "TurbiniaTask", ""},
      id \in RequestIds,
      ev \in [1..n -> [1..1 -> PayloadRecs]] }

\* TurbiniaRequest.from_json(self = r, json_str = x): the exception raised,
\* and the attributes of self afterwards.
from_json(r, x) ==
  IF ~x.valid
    THEN [kind |-> "TurbiniaException", request |-> r]
  ELSE IF x.shape # "mapping"
    THEN \* obj.get on a list
         [kind |-> "AttributeError", request |-> r]
  ELSE IF x.type # r.type
    THEN [kind |-> "TurbiniaException", request |-> r]
  ELSE IF x.evidence # <<>>
    THEN \* the module interface has no attribute evidence_decode
         [kind |-> "AttributeError", request |-> r]
  ELSE [kind |-> "ok",
        request |-> Request(x.request_id, EvidenceCollection(<<>>))]

\* TurbiniaMessageBase._validate_message(message = x): the new request, or
\* None after a TurbiniaException was caught and logged; another exception
\* is raised to the caller.
validate_message(x) ==
  LET loaded == from_json(NewRequest, x)
  IN CASE loaded.kind = "ok" -> ReturnsRequest(loaded.request)
       [] loaded.kind = "TurbiniaException" ->
            [kind |-> "None", request |-> NoRequest]
       [] OTHER -> RaisesRequest(loaded.kind)

\* No call was made yet.
NoCall ==
  [op |-> "none", obj |-> <<>>, payload |-> [shape |-> "", recs |-> <<>>],
   arg |-> [kind |-> "None", items |-> <<>>], text |-> NoText,
   sent |-> NoRequest, before |-> NoRequest,
   kind |-> "none", value |-> <<>>, request |-> NoRequest]

msgs == <<call, recv>>

\* ------------------------------------------------- client: polling
\* How many tasks a fetch of the task results holds at most, and how many
\* polls a call of wait_for_request makes at most.
MaxResults == 3

MaxPolls == 3

\* task.get('successful') of a task result: unset, or a definite value.
Successful == {"None", "True", "False"}

\* What get_task_data may return: the task results of the request, in any
\* number and any state.
TaskResults == UNION { [1..n -> Successful] : n \in 0..MaxResults }

\* completed_tasks and uncompleted_tasks of wait_for_request, as counts.
CompletedCount(results) ==
  Cardinality({i \in 1..Len(results) : results[i] # "None"})

UncompletedCount(results) ==
  Cardinality({i \in 1..Len(results) : results[i] = "None"})

\* The condition of the break: completed_tasks is not empty and holds every
\* task of task_results.
AllCompletedNoTruth(results) == CompletedCount(results) = Len(results)

AllCompleted(results) ==
  CompletedCount(results) > 0 /\ CompletedCount(results) = Len(results)

\* The level the progress message of an iteration is logged at.
ProgressLevel(completed, uncompleted, last_completed, last_uncompleted) ==
  IF completed > last_completed \/ uncompleted > last_uncompleted
    THEN "info"
    ELSE "debug"

\* No call of wait_for_request is under way.
NoPoll ==
  [pc |-> "idle", n |-> 0, results |-> <<>>, tasks |-> <<>>,
   last_completed_count |-> -1, last_uncompleted_count |-> -1,
   prev_completed |-> -1, prev_uncompleted |-> -1, level |-> "none"]

\* ------------------------------------------------- client: reporting
\* How many tasks a TurbiniaStats object holds at most, and how many task
\* results a report is made of at most.
MaxStatTasks == 4

MaxReportTasks == 3

\* A run_time: a timedelta of s seconds and us microseconds.
RunTimes == [s : 1..3, us : {0, 500000}]

\* The order of timedelta values, as a number of microseconds.
Micros(rt) == rt.s * 1000000 + rt.us

\* timedelta - timedelta(microseconds=timedelta.microseconds).
RemoveMicroseconds(rt) == [rt EXCEPT !.us = 0]

RECURSIVE Insert(_, _)
\* x put into the sorted sequence seq after every element whose key is not
\* greater than its own.
Insert(seq, x) ==
  IF seq = <<>> THEN <<x>>
  ELSE IF x.key < Head(seq).key
    THEN <<x>> \o seq
    ELSE <<Head(seq)>> \o Insert(Tail(seq), x)

RECURSIVE SortKeyed(_)
\* The sequence of keyed items in ascending order of key, items of equal
\* key in their original order.
SortKeyed(seq) ==
  IF seq = <<>> THEN <<>>
  ELSE Insert(SortKeyed(SubSeq(seq, 1, Len(seq) - 1)), seq[Len(seq)])

\* sorted(seq, key=...): ascending and stable.
sorted(seq, Key(_)) ==
  LET keyed == SortKeyed([i \in 1..Len(seq) |-> [key |-> Key(seq[i]), item |-> seq[i]]])
  IN [i \in 1..Len(seq) |-> keyed[i].item]

\* Where the mean is read in the sorted tasks (0-indexed in the code).
MeanIndexMiddleLow(n) == (n - 1) \div 2 + 1

MeanIndex(n) == n \div 2 + 1

\* None where a timedelta may stand as well.
NoTime == [s |-> -1, us |-> 0]

\* TurbiniaStats.__init__: min, mean and max are None.
NoStats == [min |-> NoTime, mean |-> NoTime, max |-> NoTime]

\* TurbiniaStats.calculate_stats on tasks with the given run_time values.
calculate_stats(run_times) ==
  IF run_times = <<>>
    THEN NoStats
    ELSE LET sorted_tasks == sorted(run_times, Micros)
         IN [min |-> RemoveMicroseconds(sorted_tasks[1]),
             max |-> RemoveMicroseconds(sorted_tasks[Len(sorted_tasks)]),
             mean |-> RemoveMicroseconds(sorted_tasks[MeanIndex(Len(sorted_tasks))])]

\* None and the empty string where a number may stand as well, written as
\* numbers no run_time and no priority takes.
NoneValue == -1

EmptyString == -2

\* The task results get_task_statistics reads the request statistics from:
\* run_time is None, zero, or a number of seconds; last_update is a point
\* in time, in seconds.
StatTasks ==
  [request_id : {"req-1", "req-2"}, run_time : {NoneValue, 0, 1, 2},
   last_update : 2..3]

\* not task.get('run_time'): None and a zero run_time are both false.
RunTimeNotNone(task) == task.run_time # NoneValue

RunTimeSet(task) == task.run_time \notin {NoneValue, 0}

\* The position of request_id among the keys of the dict requests, 0 when
\* it is no key.
KeyIndex(requests, request_id) ==
  LET found == {i \in 1..Len(requests) : requests[i].request_id = request_id}
  IN IF found = {} THEN 0 ELSE CHOOSE i \in found : TRUE

RECURSIVE RequestTimes(_, _, _)
\* The loop over task_results of get_task_statistics, from task i on:
\* requests maps each request id to the start time of its earliest task
\* and the stop time of its latest one.
RequestTimes(task_results, i, requests) ==
  IF i > Len(task_results) THEN requests
  ELSE LET task == task_results[i]
       IN IF ~RunTimeSet(task)
            THEN RequestTimes(task_results, i + 1, requests)
            ELSE LET task_start_time == task.last_update - task.run_time
                     task_stop_time == task.last_update
                     j == KeyIndex(requests, task.request_id)
                 IN IF j = 0
                      THEN RequestTimes(task_results, i + 1,
                             Append(requests,
                                    [request_id |-> task.request_id,
                                     start_time |-> task_start_time,
                                     stop_time |-> task_stop_time]))
                      ELSE RequestTimes(task_results, i + 1,
                             [requests EXCEPT
                                ![j].start_time =
                                   IF task_start_time < @ THEN task_start_time ELSE @,
                                ![j].stop_time =
                                   IF task_stop_time > @ THEN task_stop_time ELSE @])

\* get_task_statistics: the tasks added to task_stats['requests'], one for
\* each key of requests (request_id is kept to tell them apart), and the
\* statistics calculated from them; nothing for an empty task list.
get_task_statistics(task_results) ==
  IF task_results = <<>>
    THEN [requests |-> <<>>, stats |-> NoStats]
    ELSE LET requests == RequestTimes(task_results, 1, <<>>)
             tasks == [j \in 1..Len(requests) |->
                         [request_id |-> requests[j].request_id,
                          run_time |-> requests[j].stop_time - requests[j].start_time]]
         IN [requests |-> tasks,
             stats |-> calculate_stats(
                         [j \in 1..Len(tasks) |-> [s |-> tasks[j].run_time, us |-> 0]])]

\* turbinia.workers.Priority: a lower value is a higher priority.
Priority == [CRITICAL |-> 10, HIGH |-> 20, MEDIUM |-> 50, LOW |-> 80]

\* The task results format_task_status groups: report_priority is unset
\* (None or ''), zero, or a value of Priority.
ReportTasks ==
  [report_priority : {NoneValue, EmptyString, 0, Priority.HIGH, Priority.LOW},
   successful : Successful]

\* The section titles, in the order they are rendered.
success_types == <<"High Priority", "Successful", "Failed", "Scheduled or Running">>

\* success_map: the section of a task that is not of high priority.
success_map(successful) ==
  CASE successful = "True" -> "Successful"
    [] successful = "False" -> "Failed"
    [] successful = "None" -> "Scheduled or Running"

\* result['report_priority'] after the first loop of format_task_status.
ReportPriorityHigh(task) ==
  IF task.report_priority \in {NoneValue, EmptyString} THEN Priority.HIGH
                                          ELSE task.report_priority

ReportPriority(task) ==
  IF task.report_priority \in {NoneValue, EmptyString} THEN Priority.LOW
                                          ELSE task.report_priority

\* The key of task_map a task is appended to.
SectionOf(task, priority_filter) ==
  IF task.report_priority <= priority_filter
    THEN "High Priority"
    ELSE success_map(task.successful)

\* format_task_status: the sections of the report in the order they are
\* rendered, each with its tasks in the order they are rendered (id is the
\* position of the task in task_results); no section for an empty list.
format_task_status(task_results, priority_filter) ==
  IF task_results = <<>> THEN <<>>
  ELSE LET results == [i \in 1..Len(task_results) |->
                         [id |-> i,
                          report_priority |-> ReportPriority(task_results[i]),
                          successful |-> task_results[i].successful]]
           ByPriority(task) == task.report_priority
           sorted_results == sorted(results, ByPriority)
       IN [n \in 1..Len(success_types) |->
             [title |-> success_types[n],
              tasks |-> SelectSeq(sorted_results,
                          LAMBDA task :
                            SectionOf(task, priority_filter) = success_types[n])]]

\* No reporting function was called.
NoReport ==
  [op |-> "none", run_times |-> <<>>, task_results |-> <<>>,
   priority_filter |-> 0, stats |-> NoStats, requests |-> <<>>,
   sections |-> <<>>]

\* ------------------------------------------------- manager_interface
\* The classes that are registered: two classes whose type differs in case
\* only, and two others.
ClassObjects == {"RawDisk", "Rawdisk", "Directory", "ReportText"}

\* str.lower() of a class name.
Lower(name) ==
  CASE name \in {"RawDisk", "Rawdisk", "rawdisk"} -> "rawdisk"
    [] name \in {"Directory", "directory"} -> "directory"
    [] name \in {"ReportText", "reporttext"} -> "reporttext"
    [] OTHER -> name

\* The names a class is asked for by.
ClassNames == ClassObjects \cup {Lower(c) : c \in ClassObjects}

\* The keys of _registered_classes, a set of <<class_name, class_object>>.
RegisteredNames(registered) == {p[1] : p \in registered}

\* _registered_classes[class_name].
RegisteredClass(registered, class_name) ==
  CHOOSE c \in ClassObjects : <<class_name, c>> \in registered

\* ManagerInterface.Register(class_object).
RegisterOverwrites(registered, class_object) ==
  LET class_name == Lower(class_object)
  IN [outcome |-> "ok",
      registered |-> {p \in registered : p[1] # class_name}
                       \cup {<<class_name, class_object>>}]

Register(registered, class_object) ==
  LET class_name == Lower(class_object)
  IN IF class_name \in RegisteredNames(registered)
       THEN [outcome |-> "KeyError", registered |-> registered]
       ELSE [outcome |-> "ok",
             registered |-> registered \cup {<<class_name, class_object>>}]

\* ManagerInterface.DeregisterByName(class_name).
DeregisterByName(registered, class_name) ==
  IF class_name \notin RegisteredNames(registered)
    THEN [outcome |-> "KeyError", registered |-> registered]
    ELSE [outcome |-> "ok",
          registered |-> {p \in registered : p[1] # class_name}]

\* ManagerInterface.Deregister(class_object).
Deregister(registered, class_object) ==
  DeregisterByName(registered, Lower(class_object))

\* ManagerInterface.GetInstance(class_name): the class of the instance
\* that is returned.
GetInstance(registered, class_name) ==
  IF Lower(class_name) \notin RegisteredNames(registered)
    THEN [outcome |-> "KeyError", instance |-> ""]
    ELSE [outcome |-> "ok",
          instance |-> RegisteredClass(registered, Lower(class_name))]

\* Nothing is registered and no class method was called.
NoManager ==
  [registered |-> {}, op |-> "none", arg |-> "", outcome |-> "none",
   instance |-> "", before |-> {}]

\* ------------------------------------------------- jobs
\* The classes the job modules register.
JobNames ==
  {"JupyterExtractionJob", "JupyterAnalysisJob", "LinuxAccountAnalysisJob",
   "PartitionEnumerationJob", "PlasoJob", "PostgresAcctAnalysisJob",
   "RedisExtractionJob", "RedisAnalysisJob", "YaraAnalysisJob"}

\* The evidence classes the jobs name.
EvidenceTypes ==
  {RAW, EWF, GCD, EMB, DP, DOCKER, CDIR, "ContainerdContainer", "Directory",
   "BodyFile", "ExportedFileArtifact", "ReportText", "PlasoFile"}

\* evidence_input of each job class.
evidence_input_yara_no_partition(job) ==
  IF job = "YaraAnalysisJob"
    THEN {CDIR, "ContainerdContainer", "Directory", DOCKER}
    ELSE {}

evidence_input(job) ==
  CASE job = "JupyterExtractionJob" ->
         {"ContainerdContainer", "Directory", DOCKER, EWF, GCD, EMB, RAW}
    [] job = "JupyterAnalysisJob" -> {"ExportedFileArtifact"}
    [] job = "LinuxAccountAnalysisJob" ->
         {CDIR, "ContainerdContainer", "Directory", DOCKER, EWF, GCD, EMB, RAW}
    [] job = "PartitionEnumerationJob" -> {EWF, GCD, EMB, RAW}
    [] job = "PlasoJob" ->
         {"BodyFile", "ContainerdContainer", "Directory", EWF, RAW, GCD, EMB,
          CDIR, DOCKER}
    [] job = "PostgresAcctAnalysisJob" ->
         {"Directory", DP, CDIR, DOCKER, "ContainerdContainer"}
    [] job = "RedisExtractionJob" ->
         {"ContainerdContainer", "Directory", DOCKER, GCD, EMB, RAW, EWF}
    [] job = "RedisAnalysisJob" -> {"ExportedFileArtifact"}
    [] job = "YaraAnalysisJob" ->
         {CDIR, "ContainerdContainer", "Directory", DP, DOCKER}

\* Faulty variant: the partition job hands back a raw disk.
evidence_output_partition_raw(job) ==
  IF job = "PartitionEnumerationJob" THEN {RAW} ELSE {"ReportText"}

\* evidence_output of each job class.
evidence_output(job) ==
  CASE job \in {"JupyterExtractionJob", "RedisExtractionJob"} ->
         {"ExportedFileArtifact"}
    [] job = "PartitionEnumerationJob" -> {DP}
    [] job = "PlasoJob" -> {"PlasoFile"}
    [] OTHER -> {"ReportText"}

\* How many evidences a chain of derived evidence is followed for.
MaxDerived == 4

\* The jobs the scheduler selects for an evidence of the given type: every
\* registered job whose evidence_input holds the type.
SelectJobs(registered, type) ==
  {job \in registered : type \in evidence_input(job)}

\* artifact_name of an ExportedFileArtifact; the other evidence classes
\* have no such attribute.
ArtifactNames == {"JupyterConfigFile", "RedisConfigFile", "SshdConfigFile"}

NoArtifact == ""

\* The evidence objects handed to create_tasks.
EvidenceItems ==
  [type : EvidenceTypes \ {"ExportedFileArtifact"}, artifact_name : {NoArtifact}]
    \cup [type : {"ExportedFileArtifact"}, artifact_name : ArtifactNames]

\* The artifact the FileArtifactExtractionTask of an extraction job exports.
ExtractionArtifact(job) ==
  CASE job = "JupyterExtractionJob" -> "JupyterConfigFile"
    [] job = "RedisExtractionJob" -> "RedisConfigFile"
    [] OTHER -> NoArtifact

\* Faulty variant: the analysis jobs make a task for every artifact.
TasksForAnyArtifact(job, e) ==
  CASE job = "JupyterAnalysisJob" -> <<"JupyterAnalysisTask">>
    [] job = "RedisAnalysisJob" -> <<"RedisAnalysisTask">>
    [] OTHER -> <<>>

\* The tasks create_tasks of a job appends for the evidence e of its list.
TasksFor(job, e) ==
  CASE job = "JupyterExtractionJob" -> <<"FileArtifactExtractionTask">>
    [] job = "JupyterAnalysisJob" ->
         IF e.artifact_name = "JupyterConfigFile"
           THEN <<"JupyterAnalysisTask">> ELSE <<>>
    [] job = "LinuxAccountAnalysisJob" -> <<"LinuxAccountAnalysisTask">>
    [] job = "PartitionEnumerationJob" -> <<"PartitionEnumerationTask">>
    [] job = "PlasoJob" ->
         IF e.type # "BodyFile"
           THEN <<"PlasoHasherTask", "PlasoParserTask">>
           ELSE <<"PlasoParserTask">>
    [] job = "PostgresAcctAnalysisJob" -> <<"PostgresAccountAnalysisTask">>
    [] job = "RedisExtractionJob" -> <<"FileArtifactExtractionTask">>
    [] job = "RedisAnalysisJob" ->
         IF e.artifact_name = "RedisConfigFile"
           THEN <<"RedisAnalysisTask">> ELSE <<>>
    [] job = "YaraAnalysisJob" -> <<"YaraAnalysisTask">>

RECURSIVE create_tasks(_, _)
\* create_tasks(self = job, evidence): the list of tasks to schedule.
create_tasks(job, evidence) ==
  IF evidence = <<>> THEN <<>>
  ELSE TasksFor(job, Head(evidence)) \o create_tasks(job, Tail(evidence))

\* No job is registered and no evidence was added.
NoJobs ==
  [registered |-> {}, op |-> "none", type |-> "", artifact_name |-> NoArtifact,
   selected |-> {}, tasks |-> <<>>, derived |-> <<>>]

\* ------------------------------------------------- check-lockfile
\* How many entries config.DEPENDENCIES holds at most.
MaxDependencies == 2

\* values.get('timeout') of an entry of config.DEPENDENCIES: None when the
\* entry has no timeout, else a number of seconds.
Timeouts == {NoneValue, 0, 1, 2}

RECURSIVE MaxTimeout(_, _, _)
\* The loop over config.DEPENDENCIES from entry i on: the greatest timeout,
\* or a TypeError when None is compared with a number.
MaxTimeout(deps, i, max_timeout) ==
  IF i > Len(deps) THEN [outcome |-> "ok", max_timeout |-> max_timeout]
  ELSE IF deps[i] = NoneValue THEN [outcome |-> "TypeError", max_timeout |-> max_timeout]
  ELSE MaxTimeout(deps, i + 1, IF deps[i] > max_timeout THEN deps[i] ELSE max_timeout)

\* filelock raises Timeout once the lock was found held and the time
\* waited has reached the timeout.
TimedOut(waited, timeout) == waited >= timeout

\* The holder of the lock when the with block of main is left.
HolderOnExitProbe == "probe"

HolderOnExit == "free"

\* main was not called and the lock file is free.
NoProbe ==
  [pc |-> "idle", lock_file |-> "free", deps |-> <<>>, max_timeout |-> 0,
   waited |-> 0, outcome |-> "none"]

client == <<poll, report, manager, jobs, probe>>

\* The client makes no call.
IdleClient ==
  /\ poll = NoPoll
  /\ report = NoReport
  /\ manager = NoManager
  /\ jobs = NoJobs
  /\ probe = NoProbe

\* The names used to say what an action leaves alone.
config == <<chain, req, disk, restored>>

history == <<held, everClaimed, lateClaim, relLog>>

EmptyTable == [d \in Disks |-> {}]

TypeOK ==
  /\ chain \in [Tasks -> Chains \cup SoloChains]
  /\ req \in [Tasks -> SUBSET EvidenceState]
  /\ disk \in [Tasks -> Disks]
  /\ restored \in [Tasks -> BOOLEAN]
  /\ \A t \in Tasks : \A i \in 1..Len(chain[t]) : st[t][i] \subseteq EvidenceState
  /\ lock \in Tasks \cup {NoTask}
  /\ claims \in [Disks -> SUBSET Tasks]
  /\ attached \in [Disks -> BOOLEAN]
  /\ nfaults \in 0..MaxFaults

\* Evidence.__init__ sets local_path to source_path; a restored object has
\* the local_path its last preprocess left.
InitialAttr(c, r) ==
  [i \in 1..Len(c) |->
     [local_path |-> IF r THEN "stale" ELSE "source_path", written |-> {}]]

\* The tasks in active are new, the others are over; every state flag is
\* False, nothing is attached and the persisted table is empty.
InitState(active) ==
  /\ pc = [t \in Tasks |-> IF t \in active THEN "new" ELSE "done"]
  /\ k = [t \in Tasks |-> 0]
  /\ st = [t \in Tasks |-> [i \in 1..Len(chain[t]) |-> {}]]
  /\ attr = [t \in Tasks |-> InitialAttr(chain[t], restored[t])]
  /\ lock = NoTask
  /\ claims = EmptyTable
  /\ tmp = [t \in Tasks |-> EmptyTable]
  /\ attached = [d \in Disks |-> FALSE]
  /\ trace = [t \in Tasks |-> <<>>]
  /\ fault = [t \in Tasks |-> "none"]
  /\ nfaults = 0
  /\ held = EmptyTable
  /\ everClaimed = EmptyTable
  /\ lateClaim = [d \in Disks |-> FALSE]
  /\ relLog = [d \in Disks |-> <<>>]

\* Every task is new, on a chain that was just constructed.
InitWith(cs, rs) ==
  /\ chain \in [Tasks -> cs]
  /\ req \in [Tasks -> rs]
  /\ disk \in [Tasks -> Disks]
  /\ restored = [t \in Tasks |-> FALSE]
  /\ InitState(Tasks)
  /\ call = NoCall
  /\ recv = NewRequest
  /\ IdleClient

\* One worker alone: task 1 on any chain, constructed or restored.
InitSolo ==
  /\ \E c \in SoloChains : chain = [t \in Tasks |-> IF t = 1 THEN c ELSE <<RAW>>]
  /\ \E r \in SoloReqSets : req = [t \in Tasks |-> IF t = 1 THEN r ELSE {}]
  /\ disk \in [Tasks -> Disks]
  /\ \E b \in BOOLEAN : restored = [t \in Tasks |-> t = 1 /\ b]
  /\ InitState({1})
  /\ call = NoCall
  /\ recv = NewRequest
  /\ IdleClient

Init == InitWith(Chains, ReqSets)

InitFault == InitWith(FaultChains, FaultReqSets)

\* ------------------------------------------------- preprocess
\* preprocess returns to its caller: the next evidence down the chain, or
\* the task body once the requested evidence is done.
PreAdvance(t) ==
  IF k[t] < Len(PreOrder(chain[t]))
    THEN /\ k' = [k EXCEPT ![t] = @ + 1]
         /\ pc' = [pc EXCEPT ![t] =
                     PreEntry(chain[t][PreOrder(chain[t])[k[t] + 1]])]
    ELSE /\ k' = [k EXCEPT ![t] = 0]
         /\ pc' = [pc EXCEPT ![t] = "task"]

\* An exception that the except clause does not catch leaves every
\* enclosing preprocess call.
PreAbort(t) ==
  /\ k' = [k EXCEPT ![t] = 0]
  /\ pc' = [pc EXCEPT ![t] = "task"]

\* A fault is counted and its place recorded.
Faulted(t, where) ==
  /\ nfaults < MaxFaults
  /\ nfaults' = nfaults + 1
  /\ fault' = [fault EXCEPT ![t] = where]

\* Evidence.preprocess is called on the task's evidence: the recursion
\* descends the context-dependent ancestors, and raises when one of them
\* has no parent.
PreprocessStart(t) ==
  /\ pc[t] = "new"
  /\ IF PreOrder(chain[t]) = <<>>
       THEN /\ PreAbort(t)
            /\ fault' = [fault EXCEPT ![t] = "noparent"]
       ELSE /\ k' = [k EXCEPT ![t] = 1]
            /\ pc' = [pc EXCEPT ![t] = PreEntry(chain[t][PreOrder(chain[t])[1]])]
            /\ UNCHANGED fault
  /\ attr' = [attr EXCEPT ![t] = ResetLocalPath(chain[t], @)]
  /\ UNCHANGED <<msgs, client, config, st, lock, claims, tmp, attached, trace, nfaults, history>>

\* with filelock.FileLock(config.RESOURCE_FILE_LOCK): entered.
ClaimAcquire(t) ==
  /\ pc[t] = "pre_wait"
  /\ LockFree
  /\ lock' = t
  /\ pc' = [pc EXCEPT ![t] = "pre_locked"]
  /\ UNCHANGED <<msgs, client, attr, config, k, st, claims, tmp, attached, trace, fault, nfaults,
                 history>>

\* PreprocessResourceState reads the persisted table.
ClaimRead(t) ==
  /\ pc[t] = "pre_locked"
  /\ tmp' = [tmp EXCEPT ![t] = claims]
  /\ pc' = [pc EXCEPT ![t] = "pre_write"]
  /\ UNCHANGED <<msgs, client, attr, config, k, st, lock, claims, attached, trace, fault, nfaults,
                 history>>

\* PreprocessResourceState raises (the state file cannot be read): the
\* with-block is left and the exception leaves preprocess.
ClaimFails(t) ==
  /\ pc[t] = "pre_locked"
  /\ Faulted(t, "claim")
  /\ lock' = LockOnRaise(t)
  /\ PreAbort(t)
  /\ UNCHANGED <<msgs, client, attr, config, st, claims, tmp, attached, trace, history>>

\* PreprocessResourceState writes the table back with the task added; the
\* with-block ends and the hook is called.
ClaimWrite(t) ==
  /\ pc[t] = "pre_write"
  /\ claims' = RegisterClaim(tmp[t], t)
  /\ tmp' = [tmp EXCEPT ![t] = EmptyTable]
  /\ lock' = LockOnExit(t)
  /\ pc' = [pc EXCEPT ![t] = HookEntry(chain[t][PreIdx(t)])]
  /\ held' = [held EXCEPT ![ResourceId(t)] = @ \cup {t}]
  /\ everClaimed' = [everClaimed EXCEPT ![ResourceId(t)] = @ \cup {t}]
  /\ lateClaim' = [lateClaim EXCEPT ![ResourceId(t)] =
                     @ \/ relLog[ResourceId(t)] # <<>>]
  /\ UNCHANGED <<msgs, client, attr, config, k, st, attached, trace, fault, nfaults, relLog>>

\* _preprocess of RawDisk, DiskPartition, GoogleCloudDiskRawEmbedded.
Hook(t) ==
  /\ pc[t] = "pre_hook"
  /\ IF HookRaises(chain[t], st[t], PreIdx(t), req[t], ~restored[t])
       THEN \* the AttributeError is not caught: it leaves preprocess
            /\ attr' = [attr EXCEPT ![t] =
                          PreHookFailAttrs(chain[t], @, PreIdx(t), "attr")]
            /\ fault' = [fault EXCEPT ![t] = "hook"]
            /\ PreAbort(t)
            /\ UNCHANGED st
       ELSE /\ st' = [st EXCEPT ![t] =
                        PreHookFlags(chain[t], @, PreIdx(t), req[t])]
            /\ attr' = [attr EXCEPT ![t] =
                          PreHookAttrs(chain[t], @, PreIdx(t), req[t], ~restored[t])]
            /\ PreAdvance(t)
            /\ UNCHANGED fault
  /\ trace' = [trace EXCEPT ![t] = Append(@, <<"pre", PreIdx(t)>>)]
  /\ UNCHANGED <<msgs, client, config, lock, claims, tmp, attached, nfaults, history>>

\* The hook raises: a TurbiniaException is caught and logged by preprocess,
\* which returns normally; any other exception leaves preprocess.
HookFails(t) ==
  /\ pc[t] = "pre_hook"
  /\ ~HookRaises(chain[t], st[t], PreIdx(t), req[t], ~restored[t])
  /\ \E f \in Failures :
       /\ Faulted(t, IF f = "texc" THEN "hook_caught" ELSE "hook")
       /\ st' = [st EXCEPT ![t] = PreHookFailFlags(chain[t], @, PreIdx(t), f)]
       /\ attr' = [attr EXCEPT ![t] = PreHookFailAttrs(chain[t], @, PreIdx(t), f)]
       /\ IF f = "texc" THEN PreAdvance(t) ELSE PreAbort(t)
  /\ trace' = [trace EXCEPT ![t] = Append(@, <<"pre", PreIdx(t)>>)]
  /\ UNCHANGED <<msgs, client, config, lock, claims, tmp, attached, history>>

\* GoogleCloudDisk._preprocess: with filelock.FileLock(...) entered.
GcdAcquire(t) ==
  /\ pc[t] = "gcd_wait"
  /\ LockFree
  /\ lock' = t
  /\ pc' = [pc EXCEPT ![t] = "gcd_locked"]
  /\ UNCHANGED <<msgs, client, attr, config, k, st, claims, tmp, attached, trace, fault, nfaults,
                 history>>

\* GoogleCloudDisk._preprocess inside the lock: the disk is attached when
\* ATTACHED is required, and the with-block ends.
GcdAttach(t) ==
  /\ pc[t] = "gcd_locked"
  /\ IF ATTACHED \in req[t]
       THEN /\ attached' = [attached EXCEPT ![disk[t]] = TRUE]
            /\ st' = [st EXCEPT ![t] =
                        SetFlags(@, PreIdx(t), @[PreIdx(t)] \cup {ATTACHED})]
            /\ attr' = [attr EXCEPT ![t] =
                          Assign(@, PreIdx(t), "device_path",
                                 {"device_path", "partition_paths", "local_path"})]
       ELSE UNCHANGED <<attached, st, attr>>
  /\ lock' = LockOnExit(t)
  /\ trace' = [trace EXCEPT ![t] = Append(@, <<"pre", PreIdx(t)>>)]
  /\ PreAdvance(t)
  /\ UNCHANGED <<msgs, client, config, claims, tmp, fault, nfaults, history>>

\* google_cloud.PreprocessAttachDisk raises a TurbiniaException: the
\* with-block is left, preprocess catches and logs it.
AttachFails(t) ==
  /\ pc[t] = "gcd_locked"
  /\ ATTACHED \in req[t]
  /\ Faulted(t, "attach_caught")
  /\ lock' = LockOnRaise(t)
  /\ trace' = [trace EXCEPT ![t] = Append(@, <<"pre", PreIdx(t)>>)]
  /\ PreAdvance(t)
  /\ UNCHANGED <<msgs, client, attr, config, st, claims, tmp, attached, history>>

\* ------------------------------------------------- the task body
\* The task ran; the worker calls Evidence.postprocess.
TaskFinish(t) ==
  /\ pc[t] = "task"
  /\ k' = [k EXCEPT ![t] = 1]
  /\ pc' = [pc EXCEPT ![t] = PostEntry(chain[t][PostOrder(chain[t])[1]])]
  /\ UNCHANGED <<msgs, client, attr, config, st, lock, claims, tmp, attached, trace, fault, nfaults,
                 history>>

\* The worker process dies while the task runs: postprocess is never called.
Crash(t) ==
  /\ pc[t] = "task"
  /\ Faulted(t, "crash")
  /\ pc' = [pc EXCEPT ![t] = "crashed"]
  /\ UNCHANGED <<msgs, client, attr, config, k, st, lock, claims, tmp, attached, trace, history>>

\* ------------------------------------------------- postprocess
\* postprocess of the current evidence is over: recurse into the parent,
\* or return.
PostAdvance(t) ==
  IF k[t] < Len(PostOrder(chain[t]))
    THEN /\ k' = [k EXCEPT ![t] = @ + 1]
         /\ pc' = [pc EXCEPT ![t] =
                     PostEntry(chain[t][PostOrder(chain[t])[k[t] + 1]])]
    ELSE /\ k' = [k EXCEPT ![t] = 0]
         /\ pc' = [pc EXCEPT ![t] = "done"]

\* An exception leaves postprocess: nothing in it catches one.
PostAbort(t) ==
  /\ k' = [k EXCEPT ![t] = 0]
  /\ pc' = [pc EXCEPT ![t] = "aborted"]

\* with filelock.FileLock(config.RESOURCE_FILE_LOCK): entered.
ReleaseAcquire(t) ==
  /\ pc[t] = "post_wait"
  /\ LockFree
  /\ lock' = t
  /\ pc' = [pc EXCEPT ![t] = "post_locked"]
  /\ UNCHANGED <<msgs, client, attr, config, k, st, claims, tmp, attached, trace, fault, nfaults,
                 history>>

\* PostProcessResourceState reads the persisted table.
ReleaseRead(t) ==
  /\ pc[t] = "post_locked"
  /\ tmp' = [tmp EXCEPT ![t] = claims]
  /\ pc' = [pc EXCEPT ![t] = "post_write"]
  /\ UNCHANGED <<msgs, client, attr, config, k, st, lock, claims, attached, trace, fault, nfaults,
                 history>>

\* PostProcessResourceState raises: the with-block and postprocess are left.
ReleaseFails(t) ==
  /\ pc[t] = "post_locked"
  /\ Faulted(t, "release")
  /\ lock' = LockOnRaise(t)
  /\ PostAbort(t)
  /\ UNCHANGED <<msgs, client, attr, config, st, claims, tmp, attached, trace, history>>

\* PostProcessResourceState writes the table back without the task and
\* returns is_detachable; when it is False the hook is skipped and the
\* with-block ends, when it is True the hook runs inside the with-block.
ReleaseWrite(t) ==
  LET rid == ResourceId(t)
      det == IsDetachable(tmp[t], rid, t)
  IN /\ pc[t] = "post_write"
     /\ claims' = PostProcessResourceState(tmp[t], rid, t)
     /\ tmp' = [tmp EXCEPT ![t] = EmptyTable]
     /\ lock' = LockAfterRelease(t, RunsTeardown(det))
     /\ trace' = [trace EXCEPT ![t] = Append(@, <<"post", PostIdx(t)>>)]
     /\ held' = [held EXCEPT ![rid] = @ \ {t}]
     /\ relLog' = [relLog EXCEPT ![rid] =
                     IF t \in held[rid] THEN Append(@, <<t, det>>) ELSE @]
     /\ IF RunsTeardown(det)
          THEN /\ pc' = [pc EXCEPT ![t] = "post_teardown"]
               /\ UNCHANGED k
          ELSE PostAdvance(t)
     /\ UNCHANGED <<msgs, client, attr, config, st, attached, fault, nfaults, everClaimed, lateClaim>>

\* _postprocess of the current evidence of task t; before is what the
\* history records ahead of it.  is_detachable is the local variable after
\* the call: when it is still True, "if is_detachable" runs the hook again.
RunPostHook(t, before, is_detachable) ==
  /\ st' = [st EXCEPT ![t] = PostHookFlags(chain[t], @, PostIdx(t))]
  /\ attached' = [attached EXCEPT ![disk[t]] =
                    IF Detaches(chain[t], st[t], PostIdx(t)) THEN FALSE ELSE @]
  /\ trace' = [trace EXCEPT ![t] = Append(@ \o before, <<"down", PostIdx(t)>>)]
  /\ IF is_detachable
       THEN /\ pc' = [pc EXCEPT ![t] = "post_hook"]
            /\ UNCHANGED k
       ELSE PostAdvance(t)

\* _postprocess raises before it changed anything: postprocess is left.
FailPostHook(t, before) ==
  /\ Faulted(t, "teardown")
  /\ trace' = [trace EXCEPT ![t] = Append(@ \o before, <<"down", PostIdx(t)>>)]
  /\ PostAbort(t)
  /\ UNCHANGED <<st, attached>>

\* self._postprocess() inside the with-block of a detachable tracked evidence.
Teardown(t) ==
  /\ pc[t] = "post_teardown"
  /\ RunPostHook(t, <<>>, DetachableAfterHook)
  /\ lock' = LockOnExit(t)
  /\ UNCHANGED <<msgs, client, attr, config, claims, tmp, fault, nfaults, history>>

\* The hook raises inside the with-block.
TeardownFails(t) ==
  /\ pc[t] = "post_teardown"
  /\ FailPostHook(t, <<>>)
  /\ lock' = LockOnRaise(t)
  /\ UNCHANGED <<msgs, client, attr, config, claims, tmp, history>>

\* self._postprocess() of an evidence that is not resource tracked.
PostHook(t) ==
  /\ pc[t] = "post_hook"
  /\ RunPostHook(t, << <<"post", PostIdx(t)>> >>, FALSE)
  /\ UNCHANGED <<msgs, client, attr, config, lock, claims, tmp, fault, nfaults, history>>

\* The hook of an evidence that is not resource tracked raises.
PostHookFails(t) ==
  /\ pc[t] = "post_hook"
  /\ FailPostHook(t, << <<"post", PostIdx(t)>> >>)
  /\ UNCHANGED <<msgs, client, attr, config, lock, claims, tmp, history>>

\* An external call made inside the lock (attaching or detaching the cloud
\* disk) never returns.
Hang(t) ==
  /\ \/ pc[t] = "gcd_locked" /\ ATTACHED \in req[t]
     \/ pc[t] = "post_teardown" /\ Detaches(chain[t], st[t], PostIdx(t))
  /\ Faulted(t, "hang")
  /\ pc' = [pc EXCEPT ![t] = "hung"]
  /\ UNCHANGED <<msgs, client, attr, config, k, st, lock, claims, tmp, attached, trace, history>>

\* ------------------------------------------------- specifications
\* A step of the worker of task t when no external call fails.
Step(t) ==
  \/ PreprocessStart(t)
  \/ ClaimAcquire(t)
  \/ ClaimRead(t)
  \/ ClaimWrite(t)
  \/ Hook(t)
  \/ GcdAcquire(t)
  \/ GcdAttach(t)
  \/ TaskFinish(t)
  \/ ReleaseAcquire(t)
  \/ ReleaseRead(t)
  \/ ReleaseWrite(t)
  \/ Teardown(t)
  \/ PostHook(t)

\* A fault in the worker of task t.
Fault(t) ==
  \/ ClaimFails(t)
  \/ HookFails(t)
  \/ AttachFails(t)
  \/ Crash(t)
  \/ ReleaseFails(t)
  \/ TeardownFails(t)
  \/ PostHookFails(t)
  \/ Hang(t)

Next == \E t \in Tasks : Step(t)

NextFault == \E t \in Tasks : Step(t) \/ Fault(t)

\* The workers when every external call returns.
Spec == Init /\ [][Next]_vars

\* The workers with up to MaxFaults faults.
FaultSpec == InitFault /\ [][NextFault]_vars

\* One worker alone, on every variant and every required_states, with up to
\* MaxFaults faults.
SoloSpec == InitSolo /\ [][NextFault]_vars

\* The workers on chains that share the cloud disk, when every external
\* call returns and every worker process keeps running.
FairSpec == InitFault /\ [][Next]_vars /\ \A t \in Tasks : WF_vars(Step(t))

\* Every worker process keeps running: a step that stays possible is
\* eventually taken.  Faults are never forced.
FairFaultSpec == FaultSpec /\ \A t \in Tasks : WF_vars(Step(t))

\* ------------------------------------------------- serialization calls
\* The variables of the workers, which the serialization calls leave alone.
workers ==
  <<chain, req, disk, restored, pc, k, st, lock, claims, tmp, attached,
    attr, trace, fault, nfaults, held, everClaimed, lateClaim, relLog>>

\* The call that is about to be made, with its arguments.
CallOn(c) == [NoCall EXCEPT !.obj = c]

CallDecode(p) == [NoCall EXCEPT !.payload = p]

CallNew(id, a) ==
  [NoCall EXCEPT !.arg = a, !.sent = Request(id, EvidenceCollection(<<>>))]

CallLoad(x) == [NoCall EXCEPT !.text = x, !.kind = "text"]

\* The arguments a call may be made with: an evidence chain, a payload, a
\* constructor argument, or a text.
InitCall ==
  \/ \E len \in ChainLens : \E c \in EvChains(len) : call = CallOn(c)
  \/ call = CallDecode(NoMapping)
  \/ \E len \in ChainLens : \E p \in Mappings(len) : call = CallDecode(p)
  \/ \E id \in RequestIds : call = CallNew(id, NoCollection)
  \/ \E id \in RequestIds, len \in ChainLens :
       \E a \in CollectionArgs(1, len) : call = CallNew(id, a)
  \/ \E id \in RequestIds, n \in (0..MaxEvidence) \ {1} :
       \E a \in CollectionArgs(n, 1) : call = CallNew(id, a)
  \/ call \in {CallLoad(NoText), CallLoad(ListText)}
  \/ \E n \in 0..MaxEvidence : \E x \in MapTexts(n) : call = CallLoad(x)

\* No worker runs: the serialization interface is called once, with any
\* argument, by a receiver that is new or has loaded a message before.
InitMsg ==
  /\ chain = [t \in Tasks |-> <<RAW>>]
  /\ req = [t \in Tasks |-> {}]
  /\ disk \in [Tasks -> Disks]
  /\ restored = [t \in Tasks |-> FALSE]
  /\ InitState({})
  /\ InitCall
  /\ IdleClient
  /\ recv \in {NewRequest} \cup
               {Request(id, EvidenceCollection(<<>>)) : id \in RequestIds}

\* The call that is made has an evidence, a payload, a constructor
\* argument, a text for its argument.
HasObj == call.op = "none" /\ call.obj # <<>>

HasPayload == call.op = "none" /\ call.payload.shape # ""

HasArg == call.op = "none" /\ call.sent.type # ""

HasText == call.op = "none" /\ call.kind = "text"

\* evidence_decode(json.loads(evidence.to_json())) for an evidence chain.
RoundTrip ==
  /\ HasObj
  /\ LET p == to_json(call.obj)
         out == evidence_decode(p)
     IN call' = [call EXCEPT !.op = "round_trip", !.payload = p,
                             !.kind = out.kind, !.value = out.value]
  /\ UNCHANGED <<recv, workers, client>>

\* EvidenceManager.evidence_decode on any payload.
Decode ==
  /\ HasPayload
  /\ LET out == evidence_decode(call.payload)
     IN call' = [call EXCEPT !.op = "evidence_decode",
                             !.kind = out.kind, !.value = out.value]
  /\ UNCHANGED <<recv, workers, client>>

\* TurbiniaRequest(request_id=id, evidence_collection=a).
Construct ==
  /\ HasArg
  /\ LET out == TurbiniaRequest(call.sent.request_id, call.arg)
     IN call' = [call EXCEPT !.op = "TurbiniaRequest", !.sent = NoRequest,
                             !.kind = out.kind, !.request = out.request]
  /\ UNCHANGED <<recv, workers, client>>

\* request.to_json() of a request the constructor returned, and
\* recv.from_json of the text when there is one.
SendRequest ==
  /\ HasArg
  /\ LET made == TurbiniaRequest(call.sent.request_id, call.arg)
         sent == request_to_json(made.request)
         loaded == from_json(recv, sent.text)
     IN /\ made.kind = "ok"
        /\ IF sent.kind = "ok"
             THEN /\ call' = [call EXCEPT !.op = "send", !.sent = made.request,
                                          !.text = sent.text, !.before = recv,
                                          !.kind = loaded.kind,
                                          !.request = loaded.request]
                  /\ recv' = loaded.request
             ELSE /\ call' = [call EXCEPT !.op = "send", !.sent = made.request,
                                          !.before = recv, !.kind = sent.kind]
                  /\ UNCHANGED recv
  /\ UNCHANGED <<workers, client>>

\* recv.from_json(x) for any text.
LoadMessage ==
  /\ HasText
  /\ LET loaded == from_json(recv, call.text)
     IN /\ call' = [call EXCEPT !.op = "from_json", !.before = recv,
                                !.kind = loaded.kind, !.request = loaded.request]
        /\ recv' = loaded.request
  /\ UNCHANGED <<workers, client>>

\* TurbiniaMessageBase._validate_message(x) for any text.
ValidateMessage ==
  /\ HasText
  /\ LET out == validate_message(call.text)
     IN call' = [call EXCEPT !.op = "_validate_message",
                             !.kind = out.kind, !.request = out.request]
  /\ UNCHANGED <<recv, workers, client>>

NextMsg ==
  \/ RoundTrip
  \/ Decode
  \/ Construct
  \/ SendRequest
  \/ LoadMessage
  \/ ValidateMessage

\* The serialization interface, called once with any argument.
MsgSpec == InitMsg /\ [][NextMsg]_vars

\* ------------------------------------------------- client: wait_for_request
\* wait_for_request is called: both last counts are -1.
WaitForRequest ==
  /\ poll.pc = "idle"
  /\ poll' = [poll EXCEPT !.pc = "polling"]
  /\ UNCHANGED <<workers, msgs, report, manager, jobs, probe>>

\* One iteration of the loop on the task results get_task_data returned,
\* n being the number of polls made with it: the results are partitioned;
\* the call returns when all are completed, else the progress message is
\* logged, the counts are kept and the call sleeps.
PollResults(results, n) ==
  LET completed == CompletedCount(results)
      uncompleted == UncompletedCount(results)
  IN IF AllCompleted(results)
       THEN poll' = [poll EXCEPT !.pc = "returned", !.n = n,
                                !.results = results, !.level = "none",
                                !.prev_completed = poll.last_completed_count,
                                !.prev_uncompleted = poll.last_uncompleted_count]
       ELSE poll' = [poll EXCEPT
              !.n = n,
              !.results = results,
              !.level = ProgressLevel(completed, uncompleted,
                                      poll.last_completed_count,
                                      poll.last_uncompleted_count),
              !.prev_completed = poll.last_completed_count,
              !.prev_uncompleted = poll.last_uncompleted_count,
              !.last_completed_count = completed,
              !.last_uncompleted_count = uncompleted]

\* An iteration of the loop, whatever get_task_data returns.
Poll ==
  /\ poll.pc = "polling"
  /\ poll.n < MaxPolls
  /\ \E results \in TaskResults : PollResults(results, poll.n + 1)
  /\ UNCHANGED <<workers, msgs, report, manager, jobs, probe>>

\* An iteration of the loop when get_task_data returns the task results of
\* the request as they are stored; the polls are counted up to MaxPolls.
PollTasks ==
  /\ poll.pc = "polling"
  /\ PollResults(poll.tasks, IF poll.n < MaxPolls THEN poll.n + 1 ELSE poll.n)
  /\ UNCHANGED <<workers, msgs, report, manager, jobs, probe>>

\* A worker stores the result of a task of the request: successful becomes
\* True or False and stays so.
TaskCompletes ==
  /\ \E i \in 1..Len(poll.tasks) : \E v \in {"True", "False"} :
       /\ poll.tasks[i] = "None"
       /\ poll' = [poll EXCEPT !.tasks[i] = v]
  /\ UNCHANGED <<workers, msgs, report, manager, jobs, probe>>

\* No worker runs and no message is sent: the client waits for a request.
InitPoll ==
  /\ chain = [t \in Tasks |-> <<RAW>>]
  /\ req = [t \in Tasks |-> {}]
  /\ disk \in [Tasks -> Disks]
  /\ restored = [t \in Tasks |-> FALSE]
  /\ InitState({})
  /\ call = NoCall
  /\ recv = NewRequest
  /\ IdleClient

NextPoll ==
  \/ WaitForRequest
  \/ Poll

PollSpec == InitPoll /\ [][NextPoll]_vars

\* The client waits for a request that has the task results ts.
InitWait ==
  /\ chain = [t \in Tasks |-> <<RAW>>]
  /\ req = [t \in Tasks |-> {}]
  /\ disk \in [Tasks -> Disks]
  /\ restored = [t \in Tasks |-> FALSE]
  /\ InitState({})
  /\ call = NoCall
  /\ recv = NewRequest
  /\ report = NoReport
  /\ manager = NoManager
  /\ jobs = NoJobs
  /\ probe = NoProbe
  /\ \E ts \in TaskResults : poll = [NoPoll EXCEPT !.tasks = ts]

NextWait ==
  \/ WaitForRequest
  \/ PollTasks
  \/ TaskCompletes

\* The client keeps polling and the workers keep finishing their tasks.
WaitSpec ==
  /\ InitWait
  /\ [][NextWait]_vars
  /\ WF_vars(WaitForRequest)
  /\ WF_vars(PollTasks)
  /\ WF_vars(TaskCompletes)

\* ------------------------------------------------- client: reports
\* The arguments a reporting function is called with.
InitReport ==
  \/ \E n \in 0..MaxStatTasks : \E rts \in [1..n -> RunTimes] :
       report = [NoReport EXCEPT !.op = "stats", !.run_times = rts]
  \/ \E n \in 0..MaxReportTasks : \E ts \in [1..n -> StatTasks] :
       report = [NoReport EXCEPT !.op = "statistics", !.task_results = ts]
  \/ \E n \in 0..MaxReportTasks : \E ts \in [1..n -> ReportTasks] :
       \E f \in {Priority.CRITICAL, Priority.HIGH, Priority.LOW} :
         report = [NoReport EXCEPT !.op = "status", !.task_results = ts,
                                   !.priority_filter = f]

\* stats.calculate_stats() on a TurbiniaStats holding the tasks.
CalculateStats ==
  /\ report.op = "stats"
  /\ report' = [report EXCEPT !.op = "calculate_stats",
                              !.stats = calculate_stats(report.run_times)]
  /\ UNCHANGED <<workers, msgs, poll, manager, jobs, probe>>

\* client.get_task_statistics(...) when get_task_data returns the tasks.
GetTaskStatistics ==
  /\ report.op = "statistics"
  /\ LET out == get_task_statistics(report.task_results)
     IN report' = [report EXCEPT !.op = "get_task_statistics",
                                 !.requests = out.requests, !.stats = out.stats]
  /\ UNCHANGED <<workers, msgs, poll, manager, jobs, probe>>

\* client.format_task_status(...) when get_task_data returns the tasks.
FormatTaskStatus ==
  /\ report.op = "status"
  /\ report' = [report EXCEPT
       !.op = "format_task_status",
       !.sections = format_task_status(report.task_results, report.priority_filter)]
  /\ UNCHANGED <<workers, msgs, poll, manager, jobs, probe>>

\* No worker runs: one reporting function is called, with any arguments.
InitReports ==
  /\ chain = [t \in Tasks |-> <<RAW>>]
  /\ req = [t \in Tasks |-> {}]
  /\ disk \in [Tasks -> Disks]
  /\ restored = [t \in Tasks |-> FALSE]
  /\ InitState({})
  /\ call = NoCall
  /\ recv = NewRequest
  /\ poll = NoPoll
  /\ manager = NoManager
  /\ jobs = NoJobs
  /\ probe = NoProbe
  /\ InitReport

NextReport ==
  \/ CalculateStats
  \/ GetTaskStatistics
  \/ FormatTaskStatus

ReportSpec == InitReports /\ [][NextReport]_vars

\* ------------------------------------------------- manager calls
\* ManagerInterface.Register(class_object).
RegisterClass ==
  /\ \E class_object \in ClassObjects :
       LET out == Register(manager.registered, class_object)
       IN manager' = [registered |-> out.registered, op |-> "Register",
                      arg |-> class_object, outcome |-> out.outcome,
                      instance |-> "", before |-> manager.registered]
  /\ UNCHANGED <<workers, msgs, poll, report, jobs, probe>>

\* ManagerInterface.Deregister(class_object).
DeregisterClass ==
  /\ \E class_object \in ClassObjects :
       LET out == Deregister(manager.registered, class_object)
       IN manager' = [registered |-> out.registered, op |-> "Deregister",
                      arg |-> class_object, outcome |-> out.outcome,
                      instance |-> "", before |-> manager.registered]
  /\ UNCHANGED <<workers, msgs, poll, report, jobs, probe>>

\* ManagerInterface.DeregisterByName(class_name).
DeregisterName ==
  /\ \E class_name \in ClassNames :
       LET out == DeregisterByName(manager.registered, class_name)
       IN manager' = [registered |-> out.registered, op |-> "DeregisterByName",
                      arg |-> class_name, outcome |-> out.outcome,
                      instance |-> "", before |-> manager.registered]
  /\ UNCHANGED <<workers, msgs, poll, report, jobs, probe>>

\* ManagerInterface.GetInstance(class_name).
GetClassInstance ==
  /\ \E class_name \in ClassNames :
       LET out == GetInstance(manager.registered, class_name)
       IN manager' = [registered |-> manager.registered, op |-> "GetInstance",
                      arg |-> class_name, outcome |-> out.outcome,
                      instance |-> out.instance, before |-> manager.registered]
  /\ UNCHANGED <<workers, msgs, poll, report, jobs, probe>>

\* No worker runs: classes are registered, deregistered and instantiated.
InitManager ==
  /\ chain = [t \in Tasks |-> <<RAW>>]
  /\ req = [t \in Tasks |-> {}]
  /\ disk \in [Tasks -> Disks]
  /\ restored = [t \in Tasks |-> FALSE]
  /\ InitState({})
  /\ call = NoCall
  /\ recv = NewRequest
  /\ IdleClient

NextManager ==
  \/ RegisterClass
  \/ DeregisterClass
  \/ DeregisterName
  \/ GetClassInstance

ManagerSpec == InitManager /\ [][NextManager]_vars

\* ------------------------------------------------- job selection
\* JobsManager.Register(job): an error when the job is registered.
RegisterJob ==
  /\ \E job \in JobNames :
       jobs' = IF job \in jobs.registered
                 THEN [NoJobs EXCEPT !.op = "KeyError",
                                     !.registered = jobs.registered]
                 ELSE [NoJobs EXCEPT !.op = "Register",
                                     !.registered = jobs.registered \cup {job}]
  /\ UNCHANGED <<workers, msgs, poll, report, manager, probe>>

\* JobsManager.DeregisterJobs: jobs are filtered out of the registry.
DeregisterJob ==
  /\ \E job \in jobs.registered :
       jobs' = [NoJobs EXCEPT !.op = "Deregister",
                              !.registered = jobs.registered \ {job}]
  /\ UNCHANGED <<workers, msgs, poll, report, manager, probe>>

\* An evidence is added: the jobs to expand are selected and each of them
\* creates its tasks for the evidence.
AddEvidence ==
  /\ \E e \in EvidenceItems :
       LET selected == SelectJobs(jobs.registered, e.type)
       IN jobs' = [jobs EXCEPT
                     !.op = "add_evidence", !.type = e.type,
                     !.artifact_name = e.artifact_name,
                     !.selected = selected,
                     !.tasks = [job \in selected |-> create_tasks(job, <<e>>)]]
  /\ UNCHANGED <<workers, msgs, poll, report, manager, probe>>

\* No worker runs: jobs are registered and evidence is added.
InitJobs ==
  /\ chain = [t \in Tasks |-> <<RAW>>]
  /\ req = [t \in Tasks |-> {}]
  /\ disk \in [Tasks -> Disks]
  /\ restored = [t \in Tasks |-> FALSE]
  /\ InitState({})
  /\ call = NoCall
  /\ recv = NewRequest
  /\ IdleClient

NextJobs ==
  \/ RegisterJob
  \/ DeregisterJob
  \/ AddEvidence

JobsSpec == InitJobs /\ [][NextJobs]_vars

\* ------------------------------------------------- job expansion
\* An evidence is submitted with a request.
SubmitEvidence ==
  /\ jobs.derived = <<>>
  /\ \E type \in EvidenceTypes : jobs' = [jobs EXCEPT !.derived = <<type>>]
  /\ UNCHANGED <<workers, msgs, poll, report, manager, probe>>

\* A task of a job selected for the newest evidence hands back an evidence
\* of a type of the job's evidence_output, which is processed in turn.
DeriveEvidence ==
  /\ jobs.derived # <<>>
  /\ Len(jobs.derived) < MaxDerived
  /\ \E job \in SelectJobs(jobs.registered, jobs.derived[Len(jobs.derived)]) :
       \E type \in evidence_output(job) :
         jobs' = [jobs EXCEPT !.derived = Append(@, type)]
  /\ UNCHANGED <<workers, msgs, poll, report, manager, probe>>

\* No worker runs; any set of jobs is registered.
InitExpand ==
  /\ chain = [t \in Tasks |-> <<RAW>>]
  /\ req = [t \in Tasks |-> {}]
  /\ disk \in [Tasks -> Disks]
  /\ restored = [t \in Tasks |-> FALSE]
  /\ InitState({})
  /\ call = NoCall
  /\ recv = NewRequest
  /\ poll = NoPoll
  /\ report = NoReport
  /\ manager = NoManager
  /\ probe = NoProbe
  /\ \E registered \in SUBSET JobNames :
       jobs = [NoJobs EXCEPT !.registered = registered]

NextExpand ==
  \/ SubmitEvidence
  \/ DeriveEvidence

\* Evidence that can be processed is processed.
ExpandSpec ==
  /\ InitExpand
  /\ [][NextExpand]_vars
  /\ WF_vars(SubmitEvidence)
  /\ WF_vars(DeriveEvidence)

\* ------------------------------------------------- check-lockfile main
\* main is called: the configuration is loaded and the greatest timeout of
\* config.DEPENDENCIES is computed.
ProbeMain ==
  /\ probe.pc = "idle"
  /\ LET out == MaxTimeout(probe.deps, 1, 0)
     IN probe' = IF out.outcome = "ok"
                   THEN [probe EXCEPT !.pc = "waiting",
                                      !.max_timeout = out.max_timeout]
                   ELSE [probe EXCEPT !.pc = "raised", !.outcome = out.outcome]
  /\ UNCHANGED <<workers, msgs, poll, report, manager, jobs>>

\* lock.acquire finds the lock file free and takes it.
ProbeAcquire ==
  /\ probe.pc = "waiting"
  /\ probe.lock_file = "free"
  /\ probe' = [probe EXCEPT !.pc = "locked", !.lock_file = "probe"]
  /\ UNCHANGED <<workers, msgs, poll, report, manager, jobs>>

\* lock.acquire finds the lock file held before the timeout: it sleeps.
ProbeWait ==
  /\ probe.pc = "waiting"
  /\ probe.lock_file # "free"
  /\ ~TimedOut(probe.waited, probe.max_timeout)
  /\ probe' = [probe EXCEPT !.waited = @ + 1]
  /\ UNCHANGED <<workers, msgs, poll, report, manager, jobs>>

\* lock.acquire finds the lock file held after the timeout: filelock.Timeout
\* is raised, main logs it and returns.
ProbeTimeout ==
  /\ probe.pc = "waiting"
  /\ probe.lock_file # "free"
  /\ TimedOut(probe.waited, probe.max_timeout)
  /\ probe' = [probe EXCEPT !.pc = "returned", !.outcome = "timed out"]
  /\ UNCHANGED <<workers, msgs, poll, report, manager, jobs>>

\* Inside the with block main logs and returns: the lock is released.
ProbeReturn ==
  /\ probe.pc = "locked"
  /\ probe' = [probe EXCEPT !.pc = "returned", !.outcome = "acquired",
                            !.lock_file = HolderOnExit]
  /\ UNCHANGED <<workers, msgs, poll, report, manager, jobs>>

\* A worker takes the lock file for a task, and releases it.
WorkerLocks ==
  /\ probe.lock_file = "free"
  /\ probe' = [probe EXCEPT !.lock_file = "worker"]
  /\ UNCHANGED <<workers, msgs, poll, report, manager, jobs>>

WorkerUnlocks ==
  /\ probe.lock_file = "worker"
  /\ probe' = [probe EXCEPT !.lock_file = "free"]
  /\ UNCHANGED <<workers, msgs, poll, report, manager, jobs>>

\* The probe runs beside a worker, with any timeouts configured.
InitProbe ==
  /\ chain = [t \in Tasks |-> <<RAW>>]
  /\ req = [t \in Tasks |-> {}]
  /\ disk \in [Tasks -> Disks]
  /\ restored = [t \in Tasks |-> FALSE]
  /\ InitState({})
  /\ call = NoCall
  /\ recv = NewRequest
  /\ poll = NoPoll
  /\ report = NoReport
  /\ manager = NoManager
  /\ jobs = NoJobs
  /\ \E n \in 0..MaxDependencies : \E deps \in [1..n -> Timeouts] :
       probe = [NoProbe EXCEPT !.deps = deps]

\* The steps of the probe.
ProbeStep ==
  \/ ProbeMain
  \/ ProbeAcquire
  \/ ProbeWait
  \/ ProbeTimeout
  \/ ProbeReturn

NextProbe ==
  \/ ProbeStep
  \/ WorkerLocks
  \/ WorkerUnlocks

\* The probe keeps running while it can; a worker may hold the lock file
\* for ever.
ProbeSpec == InitProbe /\ [][NextProbe]_vars /\ WF_vars(ProbeStep)

\* ------------------------------------------------- properties
\* The position of hook event <<kind, i>> in the history of task t, 0 when
\* it did not happen.
HookPos(t, kind, i) ==
  IF \E n \in 1..Len(trace[t]) : trace[t][n] = <<kind, i>>
    THEN CHOOSE n \in 1..Len(trace[t]) : trace[t][n] = <<kind, i>>
    ELSE 0

\* preprocess of task t returned.
PreReturned(t) ==
  pc[t] \in {"task", "post_wait", "post_locked", "post_write", "post_teardown",
             "post_hook", "done"}

\* C1: for an evidence with a parent, context dependent or not, preprocess
\* runs the parent's _preprocess hook strictly before its own, from the
\* most distant ancestor down.
C1_ParentHookFirst ==
  \A t \in Tasks :
    (PreReturned(t) /\ fault[t] = "none") =>
      \A i \in 1..(Len(chain[t]) - 1) :
        /\ HookPos(t, "pre", i + 1) > 0
        /\ HookPos(t, "pre", i + 1) < HookPos(t, "pre", i)

\* C2: postprocess takes the evidence's own teardown-or-skip decision, and
\* runs the hook when it decides so, strictly before the parent's; a
\* postprocess that returned visited the whole chain.
C2_OwnDecisionFirst ==
  \A t \in Tasks :
    /\ \A i \in 1..(Len(chain[t]) - 1) :
         HookPos(t, "post", i + 1) > 0 =>
           /\ HookPos(t, "post", i) > 0
           /\ HookPos(t, "post", i) < HookPos(t, "post", i + 1)
           /\ HookPos(t, "down", i) < HookPos(t, "post", i + 1)
    /\ pc[t] = "done" =>
         \A i \in 1..Len(chain[t]) : HookPos(t, "post", i) > 0

\* A task with a chain of three evidences finished postprocess, and ran the
\* hook of the middle one.
C2_Witness ==
  \E t \in Tasks :
    /\ pc[t] = "done"
    /\ Len(chain[t]) = 3
    /\ HookPos(t, "down", 2) > 0

\* C3: when every registration on a resource id precedes the first release,
\* the release of the last of the N registered tasks is the only one that
\* returns detachable, and after it the table has no claim on the id.
C3_LastReleaseDetaches ==
  \A d \in Disks :
    ~lateClaim[d] =>
      /\ \A j \in 1..Len(relLog[d]) :
           relLog[d][j][2] = (j = Cardinality(everClaimed[d]))
      /\ (everClaimed[d] # {} /\ Len(relLog[d]) = Cardinality(everClaimed[d]))
           => claims[d] = {}

\* All tasks registered on one id and then released, the first one without
\* detaching.
C3_Witness ==
  \E d \in Disks :
    /\ ~lateClaim[d]
    /\ Cardinality(everClaimed[d]) = NumTasks
    /\ Len(relLog[d]) = NumTasks
    /\ relLog[d][1][2] = FALSE
    /\ relLog[d][NumTasks][2] = TRUE

\* C4: the teardown hook of a tracked evidence never runs while another
\* task that registered on the same resource id has not released it.
C4_NoTeardownWhileHeld ==
  \A t \in Tasks :
    pc[t] = "post_teardown" => held[ResourceId(t)] \ {t} = {}

\* A task is about to run the teardown hook after another task, registered
\* on the same id, released without detaching.
C4_Witness ==
  \E t, u \in Tasks :
    /\ t # u
    /\ pc[t] = "post_teardown"
    /\ u \in everClaimed[ResourceId(t)]
    /\ \E j \in 1..Len(relLog[ResourceId(t)]) :
         relLog[ResourceId(t)][j] = <<u, FALSE>>

\* C5: the worker that found the claim set empty still holds the lock when
\* it runs the teardown: it is the only one that decided to tear down, the
\* claim set is still empty, and no other worker is registering a claim or
\* attaching the disk.
C5_DecisionUnderLock ==
  \A t \in Tasks :
    pc[t] = "post_teardown" =>
      /\ lock = t
      /\ claims[ResourceId(t)] = {}
      /\ \A u \in Tasks \ {t} :
           pc[u] \notin {"post_teardown", "pre_locked", "pre_write", "gcd_locked"}

\* A worker is about to tear down while another one waits to register or
\* to attach.
C5_Witness ==
  \E t, u \in Tasks :
    /\ t # u
    /\ pc[t] = "post_teardown"
    /\ pc[u] \in {"pre_wait", "gcd_wait"}

\* C6: once every task that registered on a resource id has finished
\* postprocess, the disk is no longer attached.
C6_ReleasedMeansDetached ==
  \A d \in Disks :
    (everClaimed[d] # {} /\ \A t \in everClaimed[d] : pc[t] = "done")
      => ~attached[d]

\* C7: a worker inside a read-modify-write of the persisted table holds the
\* lock, so at most one worker is inside one.
C7_TableAccessUnderLock ==
  /\ \A t \in Tasks : pc[t] \in TablePCs => lock = t
  /\ Cardinality({t \in Tasks : pc[t] \in TablePCs}) <= 1

\* A worker has read the table and not yet written it while another worker
\* waits for the lock.
C7_Witness ==
  \E t, u \in Tasks :
    /\ t # u
    /\ pc[t] \in {"pre_write", "post_write"}
    /\ pc[u] \in WaitPCs

\* C8: a task that crashed after registering does not wedge the resource:
\* once the other tasks that registered on the id have finished, the claim
\* set is empty and the disk is detached.
C8_CrashDoesNotWedge ==
  \A d \in Disks :
    ( /\ \E c \in everClaimed[d] : pc[c] = "crashed"
      /\ \E u \in everClaimed[d] : pc[u] = "done"
      /\ \A u \in Tasks : pc[u] \in {"crashed", "done"} )
      => (claims[d] = {} /\ ~attached[d])

\* The holder of the lock hangs inside the with-block.
HolderHung == \E h \in Tasks : lock = h /\ pc[h] = "hung"

\* C9: a worker waiting for the lock stops waiting (it acquires the lock or
\* its operation fails with a timeout) even if the holder never releases.
C9_LockWaitEnds ==
  \A t \in Tasks :
    (pc[t] \in WaitPCs /\ HolderHung) ~> (pc[t] \notin WaitPCs)

\* C10: a worker holds the lock only inside a with-block: once preprocess
\* or postprocess returned or raised, it does not hold it.
C10_LockReleasedOnExit ==
  \A t \in Tasks : lock = t => pc[t] \in LockedPCs

\* Exceptions raised inside a with-block left preprocess or postprocess,
\* and the lock is free.
C10_Witness ==
  \E t \in Tasks :
    /\ fault[t] \in {"claim", "release", "teardown"}
    /\ pc[t] \in {"task", "aborted"}
    /\ lock = NoTask

\* preprocess of task t is over and postprocess did not start.
PreOver(t) == pc[t] = "task"

\* C11: preprocess of a context-dependent evidence without a parent raises
\* and changes nothing: local_path and every other attribute, the state
\* flags and the claim table are as before, and no hook ran.
C11_NoParentNoSideEffect ==
  \A t \in Tasks :
    (PreOver(t) /\ fault[t] = "noparent") =>
      /\ attr[t] = InitialAttr(chain[t], restored[t])
      /\ \A i \in 1..Len(chain[t]) : st[t][i] = {}
      /\ trace[t] = <<>>
      /\ \A d \in Disks : t \notin everClaimed[d]

\* A hook of task t failed: it raised, or a processor it called raised.
HookFailed(t) == fault[t] \in {"hook", "hook_caught", "attach_caught"}

\* C12: a failure of a _preprocess hook is caught inside preprocess, which
\* returns normally after the hooks of the rest of the chain ran.
C12_HookFailureCaught ==
  \A t \in Tasks :
    (PreOver(t) /\ HookFailed(t)) =>
      /\ fault[t] # "hook"
      /\ \A j \in 1..Len(PreOrder(chain[t])) :
           HookPos(t, "pre", PreOrder(chain[t])[j]) > 0

\* C13: when no call failed, a child that attached or mounted something
\* built on its parent (the loop device of a partition on the parent's
\* device_path, a container on the parent's mount_path, the file system of
\* the parent disk the embedded variant mounts) has a parent in the
\* ATTACHED, respectively MOUNTED, state.
C13_ParentReadyFirst ==
  \A t \in Tasks :
    (PreOver(t) /\ fault[t] = "none" /\ nfaults = 0) =>
      \A i \in 1..(Len(chain[t]) - 1) :
        /\ (chain[t][i] = DP /\ ATTACHED \in st[t][i]) => ATTACHED \in st[t][i + 1]
        /\ (chain[t][i] = DOCKER /\ CONTAINER_MOUNTED \in st[t][i])
             => MOUNTED \in st[t][i + 1]
        /\ (chain[t][i] = EMB /\ MOUNTED \in st[t][i + 1])
             => ATTACHED \in st[t][i + 1]

\* C14: a state flag of an evidence is True only if the POSSIBLE_STATES of
\* its variant list it, also when the hook of its child set it.
C14_FlagsWithinPossibleStates ==
  \A t \in Tasks :
    \A i \in 1..Len(chain[t]) : st[t][i] \subseteq PossibleStates(chain[t][i])

\* The embedded variant marked its parent disk MOUNTED.
C14_Witness ==
  \E t \in Tasks :
    /\ chain[t] = <<EMB, GCD>>
    /\ HookPos(t, "pre", 1) > 0
    /\ st[t][2] = {ATTACHED, MOUNTED}

\* C15: a hook that ran for required_states naming none of the
\* POSSIBLE_STATES of its variant, on an evidence without child, assigned no
\* attribute, set no state flag, and mounted nothing on the parent.
C15_NothingRequiredNoEffect ==
  \A t \in Tasks :
    (PreOver(t) /\ fault[t] = "none" /\ nfaults = 0) =>
      \A i \in 1..Len(chain[t]) :
        ( /\ HookPos(t, "pre", i) > 0
          /\ req[t] \cap PossibleStates(chain[t][i]) = {}
          /\ ~HasChild(i) ) =>
          /\ attr[t][i].written = {}
          /\ st[t][i] = {}
          /\ chain[t][i] = EMB =>
               (MOUNTED \notin st[t][i + 1]
                  /\ "mount_path" \notin attr[t][i + 1].written)

\* C16: encoding an evidence and decoding the result yields an object of
\* the same class with the same attributes, parents and state flags.
C16_EvidenceRoundTrip ==
  call.op = "round_trip" => (call.kind = "ok" /\ call.value = call.obj)

\* The payload is not a mapping, or a mapping of it has no type or names
\* no Evidence class.
Malformed(p) ==
  p.shape # "mapping" \/ \E i \in 1..Len(p.recs) : p.recs[i].type \notin EvTypes

\* C17: evidence_decode returns an object of the class the type field
\* names, and raises a TurbiniaException for a payload that is no mapping,
\* has no type, or names no Evidence class.
C17_DecodeExactVariant ==
  call.op = "evidence_decode" =>
    IF Malformed(call.payload)
      THEN call.kind = "TurbiniaException"
      ELSE /\ call.kind = "ok"
           /\ Len(call.value) = Len(call.payload.recs)
           /\ \A i \in 1..Len(call.value) :
                call.value[i].type = call.payload.recs[i].type

\* C18: a request serialized with to_json and loaded with from_json has
\* the same attributes and the same evidence in the same order.
C18_RequestRoundTrip ==
  call.op = "send" => (call.kind = "ok" /\ recv = call.sent)

\* The text is no JSON, or its type is not the request type, or one of its
\* evidence records does not decode.
FailingText(x) ==
  \/ ~x.valid
  \/ /\ x.shape = "mapping"
     /\ \/ x.type # "TurbiniaRequest"
        \/ \E n \in 1..Len(x.evidence) :
             evidence_decode([shape |-> "mapping", recs |-> x.evidence[n]]).kind # "ok"

\* C19: from_json raises a TurbiniaException for such a text, and leaves
\* the attributes of the receiving request as they were.
C19_FromJsonFailsTyped ==
  (call.op = "from_json" /\ FailingText(call.text)) =>
    (call.kind = "TurbiniaException" /\ recv = call.before)

\* The argument is a list of evidence and not an EvidenceCollection, or
\* holds an evidence with an unset required attribute.
BadCollection(a) ==
  \/ a.kind = "list" /\ a.items # <<>>
  \/ a.kind = "EvidenceCollection"
       /\ \E n \in 1..Len(a.items) : ~validate(a.items[n][1])

\* C20: the constructor raises a TurbiniaException for such an argument,
\* and a message that fails to decode reaches the caller of
\* _validate_message as an exception.
C20_ErrorsReachCaller ==
  /\ (call.op = "TurbiniaRequest" /\ BadCollection(call.arg))
       => call.kind = "TurbiniaException"
  /\ (call.op = "_validate_message" /\ FailingText(call.text))
       => call.kind \notin {"ok", "None"}

\* C21: wait_for_request returns only in a poll whose task list is not
\* empty and holds no task whose successful value is unset.
C21_ReturnsOnlyWhenAllCompleted ==
  poll.pc = "returned" =>
    (poll.results # <<>>
       /\ \A i \in 1..Len(poll.results) : poll.results[i] \in {"True", "False"})

\* wait_for_request returned after polls in which tasks were still unset.
C21_Witness ==
  poll.pc = "returned" /\ poll.n > 1 /\ poll.prev_uncompleted > 0

\* C22: the progress message of a polling iteration is logged at info level
\* exactly when the completed or the uncompleted count differs from the
\* count of the previous iteration.
C22_ProgressOnEveryChange ==
  (poll.pc = "polling" /\ poll.n > 1) =>
    (poll.level = "info" <=>
       (poll.last_completed_count # poll.prev_completed
          \/ poll.last_uncompleted_count # poll.prev_uncompleted))

\* The values a sequence holds.
Range(seq) == {seq[i] : i \in 1..Len(seq)}

\* How many of the run_time values are below rt, and how many are not
\* above it.
Below(run_times, rt) ==
  Cardinality({i \in 1..Len(run_times) : Micros(run_times[i]) < Micros(rt)})

NotAbove(run_times, rt) ==
  Cardinality({i \in 1..Len(run_times) : Micros(run_times[i]) <= Micros(rt)})

\* The smallest and the largest of the run_time values, and the one at
\* index count // 2 (0-indexed) when they are put in ascending order.
Smallest(run_times) ==
  CHOOSE rt \in Range(run_times) : Below(run_times, rt) = 0

Largest(run_times) ==
  CHOOSE rt \in Range(run_times) : NotAbove(run_times, rt) = Len(run_times)

Middle(run_times) ==
  CHOOSE rt \in Range(run_times) :
    /\ Below(run_times, rt) <= Len(run_times) \div 2
    /\ NotAbove(run_times, rt) > Len(run_times) \div 2

Max(S) == CHOOSE x \in S : \A y \in S : y <= x

Min(S) == CHOOSE x \in S : \A y \in S : x <= y

\* The tasks of a request among those at the positions in counted, and the
\* time from the earliest start to the latest stop of these tasks.
TasksOf(task_results, counted, request_id) ==
  {i \in counted : task_results[i].request_id = request_id}

Span(task_results, of) ==
  Max({task_results[i].last_update : i \in of})
    - Min({task_results[i].last_update - task_results[i].run_time : i \in of})

\* The request statistics hold one entry for each request id of the tasks
\* at the positions in ids, with the span of the request's tasks among
\* those at the positions in counted.
OneEntryPerRequest(task_results, requests, ids, counted) ==
  /\ Len(requests) = Cardinality({task_results[i].request_id : i \in ids})
  /\ \A i \in ids :
       LET mine == {j \in 1..Len(requests) :
                      requests[j].request_id = task_results[i].request_id}
           of == TasksOf(task_results, counted, task_results[i].request_id)
       IN /\ Cardinality(mine) = 1
          /\ of # {} =>
               \A j \in mine : requests[j].run_time = Span(task_results, of)

\* C24 as stated: every request id of the task results has exactly one
\* entry in the request statistics, whose run_time is the latest
\* last_update minus the earliest start of all tasks of the request, and
\* there are as many entries as distinct request ids.
C24_EntryForEveryRequest ==
  report.op = "get_task_statistics" =>
    OneEntryPerRequest(report.task_results, report.requests,
      DOMAIN report.task_results,
      {i \in DOMAIN report.task_results : RunTimeNotNone(report.task_results[i])})

\* C24 amended: the same of the tasks whose run_time is set and not zero;
\* the other tasks are ignored.
C24_EntryForEveryTimedRequest ==
  report.op = "get_task_statistics" =>
    LET timed == {i \in DOMAIN report.task_results :
                    report.task_results[i].run_time > 0}
    IN OneEntryPerRequest(report.task_results, report.requests, timed, timed)

\* Statistics were gathered for a request with two timed tasks that stop
\* at different times, and a task of zero run_time.
C24_Witness ==
  /\ report.op = "get_task_statistics"
  /\ report.requests # <<>>
  /\ \E i, j, n \in DOMAIN report.task_results :
       /\ i # j
       /\ report.task_results[i].request_id = report.task_results[j].request_id
       /\ report.task_results[i].run_time > 0
       /\ report.task_results[j].run_time > 0
       /\ report.task_results[i].last_update # report.task_results[j].last_update
       /\ report.task_results[n].run_time = 0

\* The sections of the last report that render the task at position i of
\* the task results.
SectionsWith(i) ==
  {n \in DOMAIN report.sections :
     \E m \in DOMAIN report.sections[n].tasks : report.sections[n].tasks[m].id = i}

\* How often the task at position i is rendered in section n.
TimesIn(n, i) ==
  Cardinality({m \in DOMAIN report.sections[n].tasks :
                 report.sections[n].tasks[m].id = i})

\* The title of the section a task belongs in: a task without
\* report_priority counts as one of LOW priority.
Belongs(task, priority_filter) ==
  LET priority == IF task.report_priority \in {NoneValue, EmptyString}
                    THEN Priority.LOW
                    ELSE task.report_priority
  IN IF priority <= priority_filter THEN "High Priority"
     ELSE IF task.successful = "True" THEN "Successful"
     ELSE IF task.successful = "False" THEN "Failed"
     ELSE "Scheduled or Running"

\* C25: format_task_status renders the sections High Priority, Successful,
\* Failed, Scheduled or Running in this order, and every task result once,
\* in the one section its priority and its outcome put it in.
C25_OneSectionPerTask ==
  (report.op = "format_task_status" /\ report.task_results # <<>>) =>
    /\ [n \in DOMAIN report.sections |-> report.sections[n].title]
         = <<"High Priority", "Successful", "Failed", "Scheduled or Running">>
    /\ \A i \in DOMAIN report.task_results :
         /\ Cardinality(SectionsWith(i)) = 1
         /\ \A n \in SectionsWith(i) :
              /\ TimesIn(n, i) = 1
              /\ report.sections[n].title
                   = Belongs(report.task_results[i], report.priority_filter)

\* A report was made of a failed task of high priority, a successful task
\* without report_priority and a task that is still running.
C25_Witness ==
  /\ report.op = "format_task_status"
  /\ report.priority_filter = Priority.HIGH
  /\ \E i, j, n \in DOMAIN report.task_results :
       /\ report.task_results[i].report_priority = Priority.HIGH
       /\ report.task_results[i].successful = "False"
       /\ report.task_results[j].report_priority = NoneValue
       /\ report.task_results[j].successful = "True"
       /\ report.task_results[n].report_priority = Priority.LOW
       /\ report.task_results[n].successful = "None"
  /\ \A n \in DOMAIN report.sections : n # 3 <=> report.sections[n].tasks # <<>>

\* C26: Register of a class whose name is registered raises an error and
\* leaves the registry as it was, GetInstance returns an instance of the
\* class that is registered, and no name maps to two classes.
C26_NoSilentOverwrite ==
  /\ (manager.op = "Register"
        /\ Lower(manager.arg) \in RegisteredNames(manager.before))
       => (manager.outcome = "KeyError" /\ manager.registered = manager.before)
  /\ (manager.op = "GetInstance" /\ manager.outcome = "ok")
       => <<Lower(manager.arg), manager.instance>> \in manager.registered
  /\ \A p, q \in manager.registered : p[1] = q[1] => p = q

\* A class was registered under a name that another class holds.
C26_Witness ==
  /\ manager.op = "Register"
  /\ manager.arg = "Rawdisk"
  /\ <<"rawdisk", "RawDisk">> \in manager.before
  /\ Cardinality(manager.before) > 1

\* C27: the jobs selected for an evidence are the registered jobs whose
\* evidence_input holds its type: YaraAnalysisJob and
\* PostgresAcctAnalysisJob are both selected for a DiskPartition when
\* registered and neither for a RawDisk, and of two selected jobs the one
\* that does not accept another type is not selected for that type.
C27_JobsByEvidenceInput ==
  jobs.op = "add_evidence" =>
    /\ jobs.selected = {job \in jobs.registered : jobs.type \in evidence_input(job)}
    /\ jobs.type = DP =>
         jobs.selected \cap {"YaraAnalysisJob", "PostgresAcctAnalysisJob"}
           = jobs.registered \cap {"YaraAnalysisJob", "PostgresAcctAnalysisJob"}
    /\ jobs.type = RAW =>
         jobs.selected \cap {"YaraAnalysisJob", "PostgresAcctAnalysisJob"} = {}
    /\ jobs.type = "BodyFile" => jobs.selected = jobs.registered \cap {"PlasoJob"}

\* A DiskPartition was added while both jobs and a job for disks were
\* registered.
C27_Witness ==
  /\ jobs.op = "add_evidence"
  /\ jobs.type = DP
  /\ {"YaraAnalysisJob", "PostgresAcctAnalysisJob", "PartitionEnumerationJob"}
       \subseteq jobs.registered
  /\ jobs.selected = {"YaraAnalysisJob", "PostgresAcctAnalysisJob"}

\* C28: main of check-lockfile always terminates; it waits for the lock at
\* most the greatest timeout configured, returns when the lock is acquired
\* and when the wait times out, and does not hold the lock once it returned.
C28_ProbeTerminates ==
  /\ [](probe.waited <= probe.max_timeout)
  /\ [](probe.pc = "returned" =>
          (probe.outcome \in {"acquired", "timed out"} /\ probe.lock_file # "probe"))
  /\ []((probe.pc = "waiting" /\ probe.waited = 0) =>
          <>(probe.pc = "returned"))
  /\ <>(probe.pc \in {"returned", "raised"})

\* main returned after it had waited the whole timeout for a lock that a
\* worker held, and the worker released the lock afterwards.
C28_Witness ==
  /\ probe.pc = "returned"
  /\ probe.outcome = "timed out"
  /\ probe.max_timeout = 2
  /\ probe.waited = 2
  /\ probe.lock_file = "free"

\* The sequence seq from its last element to its first.
Reverse(seq) == [n \in 1..Len(seq) |-> seq[Len(seq) + 1 - n]]

\* The evidences of task t that preprocess (kind "pre") or postprocess
\* (kind "post") visited, in the order of the visits.
Visited(t, kind) ==
  LET OfKind(e) == e[1] = kind
      events == SelectSeq(trace[t], OfKind)
  IN [n \in 1..Len(events) |-> events[n][2]]

\* postprocess of task t released the claim of the tracked evidence i.
Released(t, i) ==
  ResourceTracked(chain[t][i]) /\ HookPos(t, "post", i) > 0

\* C29: once postprocess of a task whose preprocess returned normally has
\* returned as well, the evidences it visited are the evidences
\* preprocess visited, in the reverse order; every evidence
\* it tore down, or released a claim for, was preprocessed by the
\* preprocess call of the task, also when an evidence with a parent is not
\* context dependent.
C29_PostReversesPre ==
  \A t \in Tasks :
    (pc[t] = "done" /\ fault[t] = "none") =>
      /\ Visited(t, "post") = Reverse(Visited(t, "pre"))
      /\ \A i \in 1..Len(chain[t]) :
           (HookPos(t, "down", i) > 0 \/ Released(t, i)) =>
             HookPos(t, "pre", i) > 0

\* The number of times the _postprocess hook of evidence i ran in the
\* history tr of a task.
HookRuns(tr, i) == Cardinality({ n \in 1..Len(tr) : tr[n] = <<"down", i>> })

\* C30: in a postprocess call the _postprocess hook of every evidence of
\* the chain, tracked or not, runs at most once; a tracked evidence whose
\* release returned detachable has its hook run next, exactly once, by the
\* worker that still holds the lock, and the hook of a tracked evidence
\* never runs anywhere else.
C30_HookAtMostOnce ==
  [][\A t \in Tasks :
       /\ \A i \in 1..Len(chain[t]) :
            /\ HookRuns(trace'[t], i) <= 1
            /\ (ResourceTracked(chain[t][i])
                  /\ HookRuns(trace'[t], i) > HookRuns(trace[t], i)) =>
                 (pc[t] = "post_teardown" /\ lock = t)
       /\ (pc[t] = "post_write" /\ pc'[t] # "post_write"
             /\ IsDetachable(tmp[t], ResourceId(t), t)) =>
            /\ pc'[t] = "post_teardown"
            /\ lock' = t
            /\ HookRuns(trace'[t], PostIdx(t)) = 0
       /\ (pc[t] = "post_teardown" /\ pc'[t] # "post_teardown") =>
            /\ lock = t
            /\ HookRuns(trace'[t], PostIdx(t)) = 1
            /\ pc'[t] # "post_hook"]_vars

\* postprocess of a task returned after it ran, once each, the hook of an
\* untracked evidence and the hook of a tracked one whose release was
\* detachable, and postprocess of another task returned after it skipped
\* the hook of its tracked evidence.
C30_Witness ==
  \E t, u \in Tasks :
    /\ t # u
    /\ pc[t] = "done"
    /\ pc[u] = "done"
    /\ \E i, j \in 1..Len(chain[t]) :
         /\ ResourceTracked(chain[t][i])
         /\ ~ResourceTracked(chain[t][j])
         /\ HookRuns(trace[t], i) = 1
         /\ HookRuns(trace[t], j) = 1
    /\ \E i \in 1..Len(chain[u]) :
         /\ Released(u, i)
         /\ HookRuns(trace[u], i) = 0

\* Task t ran preprocess and postprocess to the end and nothing failed.
RanToEnd(t) == pc[t] = "done" /\ fault[t] = "none" /\ trace[t] # <<>>

\* C31: a task that alone ran preprocess and then postprocess on an
\* embedded raw disk whose parent is the cloud disk of the same disk_name
\* leaves ATTACHED False on both, the cloud disk detached and no claim on
\* the id in the persisted table.
C31_SharedIdTornDown ==
  \A t \in Tasks :
    (RanToEnd(t) /\ chain[t] = <<EMB, GCD>>) =>
      /\ ATTACHED \notin st[t][1]
      /\ ATTACHED \notin st[t][2]
      /\ ~attached[disk[t]]
      /\ claims[ResourceId(t)] = {}

\* The task attached the cloud disk and the image, and postprocess ran
\* the hooks of both.
C31_Witness ==
  \E t \in Tasks :
    /\ RanToEnd(t)
    /\ chain[t] = <<EMB, GCD>>
    /\ ATTACHED \in req[t]
    /\ HookPos(t, "pre", 1) > 0
    /\ HookRuns(trace[t], 1) = 1
    /\ HookRuns(trace[t], 2) = 1

\* The state flags that are True on some evidence of the chain of task t.
FlagsSet(t) == UNION { st[t][i] : i \in 1..Len(chain[t]) }

\* C32: after a task alone ran preprocess and then postprocess on a chain,
\* every state flag of every evidence of the chain is False again, for
\* every variant and every required_states.
C32_AllFlagsCleared ==
  \A t \in Tasks : RanToEnd(t) => FlagsSet(t) = {}

\* C32 as the code has it: every state flag but DECOMPRESSED is False
\* again; DECOMPRESSED stays as preprocess left it, since
\* CompressedDirectory has no _postprocess hook.
C32_AllFlagsButDecompressedCleared ==
  \A t \in Tasks : RanToEnd(t) => FlagsSet(t) \subseteq {DECOMPRESSED}

\* A task ran to the end on a container in a partition of a raw disk, all
\* three of which had a flag set while the task ran.
C32_Witness ==
  \E t \in Tasks :
    /\ RanToEnd(t)
    /\ chain[t] = <<DOCKER, DP, RAW>>
    /\ CONTAINER_MOUNTED \in req[t]
    /\ HookRuns(trace[t], 1) = 1
    /\ HookRuns(trace[t], 2) = 1
    /\ HookRuns(trace[t], 3) = 1
    /\ FlagsSet(t) = {}

\* The positions inside a preprocess call.
PrePCs == {"pre_wait", "pre_locked", "pre_write", "gcd_wait", "gcd_locked", "pre_hook"}

\* The positions inside a postprocess call.
PostPCs == {"post_wait", "post_locked", "post_write", "post_teardown", "post_hook"}

\* C33: a worker never waits for the lock while it holds it, and when
\* every worker keeps running every preprocess call and every postprocess
\* call that started comes to its end.
C33_NoDeadlock ==
  /\ [](\A t \in Tasks : pc[t] \in WaitPCs => lock # t)
  /\ \A t \in Tasks : (pc[t] \in PrePCs) ~> PreReturned(t)
  /\ \A t \in Tasks : (pc[t] \in PostPCs) ~> (pc[t] = "done")

\* A worker waits to release its claim while another one holds the lock
\* to attach the cloud disk.
C33_Witness ==
  \E t, u \in Tasks :
    /\ t # u
    /\ lock = t
    /\ pc[t] = "gcd_locked"
    /\ pc[u] = "post_wait"

\* Every task of the request has a definite successful value.
AllDefinite == \A i \in 1..Len(poll.tasks) : poll.tasks[i] # "None"

\* C34: when every task of the request reaches a definite successful value
\* and keeps it, wait_for_request returns in the end, whatever the number
\* of tasks of the request, none included.
C34_WaitReturns == (<>[]AllDefinite) => <>(poll.pc = "returned")

\* The text is a JSON mapping of the request type whose evidence records
\* all decode.
WellFormed(x) == x.valid /\ x.shape = "mapping" /\ ~FailingText(x)

\* C35: _validate_message never raises: it returns a TurbiniaRequest for a
\* well-formed request message and None for a message that fails to
\* decode (no JSON, another type, an evidence record that does not decode).
C35_ValidateNeverRaises ==
  call.op = "_validate_message" =>
    /\ call.kind \in {"ok", "None"}
    /\ WellFormed(call.text) => call.kind = "ok"
    /\ FailingText(call.text) => call.kind = "None"

\* The two jobs that analyse exported file artifacts.
AnalysisJobs == {"JupyterAnalysisJob", "RedisAnalysisJob"}

\* The analysis jobs that created a task for the evidence that was added.
AnalysisTasks ==
  { job \in jobs.selected \cap AnalysisJobs : jobs.tasks[job] # <<>> }

\* C36: an ExportedFileArtifact is accepted by both analysis jobs, and only
\* the job whose artifact name is the evidence's creates a task, exactly
\* one: the artifact of the Jupyter extraction gives one JupyterAnalysisTask
\* and no RedisAnalysisTask, that of the Redis extraction the converse, and
\* any other artifact gives no analysis task.
C36_AnalysisByArtifactName ==
  (jobs.op = "add_evidence" /\ jobs.type = "ExportedFileArtifact") =>
    /\ jobs.selected = jobs.registered \cap AnalysisJobs
    /\ "JupyterAnalysisJob" \in jobs.selected =>
         jobs.tasks["JupyterAnalysisJob"] =
           IF jobs.artifact_name = ExtractionArtifact("JupyterExtractionJob")
             THEN <<"JupyterAnalysisTask">> ELSE <<>>
    /\ "RedisAnalysisJob" \in jobs.selected =>
         jobs.tasks["RedisAnalysisJob"] =
           IF jobs.artifact_name = ExtractionArtifact("RedisExtractionJob")
             THEN <<"RedisAnalysisTask">> ELSE <<>>
    /\ jobs.artifact_name \notin {"JupyterConfigFile", "RedisConfigFile"} =>
         AnalysisTasks = {}

\* Both analysis jobs were selected for the artifact of the Jupyter
\* extraction, and one of them created a task.
C36_Witness ==
  /\ jobs.op = "add_evidence"
  /\ jobs.type = "ExportedFileArtifact"
  /\ jobs.artifact_name = "JupyterConfigFile"
  /\ jobs.selected = AnalysisJobs
  /\ AnalysisTasks = {"JupyterAnalysisJob"}
  /\ Len(jobs.tasks["JupyterAnalysisJob"]) = 1

\* No job that is registered accepts the newest evidence of the chain.
NoJobMatches ==
  /\ jobs.derived # <<>>
  /\ SelectJobs(jobs.registered, jobs.derived[Len(jobs.derived)]) = {}

\* C37: job expansion terminates: no evidence type comes back in the chain
\* of evidence derived from a submitted evidence, and the chain reaches an
\* evidence that no job matches.
C37_ExpansionTerminates ==
  /\ [](\A m, n \in 1..Len(jobs.derived) :
          jobs.derived[m] = jobs.derived[n] => m = n)
  /\ (jobs.derived # <<>>) ~> NoJobMatches

\* A raw disk gave a partition, which gave a report, with which the chain
\* ends.
C37_Witness ==
  /\ jobs.derived = <<RAW, DP, "ReportText">>
  /\ NoJobMatches

====
